---- MODULE Spec2Model ----
(***************************************************************************)
(* CyberNinja CAN tool: the diagnostic session engine of KeyToolsTab       *)
(* (gui/tabs/key_tools_tab.py) driving a CANInterface                      *)
(* (backend/can_interface.py), and the threads of the two transports,      *)
(* CANInterface and MultiProtocolInterface (backend/multi_interface.py).   *)
(*                                                                         *)
(* Handlers are operators on a "world" record                              *)
(*    [tab, can, log, tx]                                                  *)
(* tab : the fields of KeyToolsTab, can : the fields of CANInterface,      *)
(* log : the lines the running handler has passed to _log, tx : the frames *)
(* CANInterface.send_frame has accepted while the handler ran.  An action  *)
(* runs one whole handler on the current world and stores the result.      *)
(*                                                                         *)
(* Spec and FairSpec run the engine, with the interface's calls taken as   *)
(* single steps.  TransportSpec and FairTransportSpec run one interface    *)
(* object with its caller (the GUI thread) and its background loop threads *)
(* interleaved at the lock acquisitions and the blocking calls.            *)
(* CodecSpec applies the line codecs (SLCAN, MCP2515, LIN, CSV) and the    *)
(* frame constructors to inputs drawn from small sets; text is a sequence  *)
(* of one-character strings.  StreamSpec runs one read loop over a byte    *)
(* stream that arrives in pieces.  DecoderSpec applies the UDS, DID and    *)
(* DTC decoders and loads DID configuration files.  CounterSpec runs the   *)
(* frame counter of a CANInterface, the caller and the loop thread         *)
(* interleaved inside the increment.                                       *)
(***************************************************************************)
EXTENDS Integers, Sequences, FiniteSets, TLC

VARIABLES
    tab,    \* KeyToolsTab: engine fields, timers and the widgets handlers read or set
    can,    \* CANInterface: _running, simulate, the serial handle
    out,    \* what the last step produced: log lines, frames sent, who acted
    hist    \* history of the run: outstanding request, invalid keys, scenario
            \* position, level of the seed request behind the held seed
VARIABLES
    ifc,    \* the interface object: _running, _serial, _thread, the lock, settings
    thr,    \* the threads: the caller and the loop threads, each at a position
    obs     \* signals emitted and value returned by the last step; stop() has returned
VARIABLES
    cdc,    \* the last codec call: its name, its arguments and what it returned
    rxs     \* a receiving interface: bytes on the wire, the loop's buffer, the
            \* handle, the frames published so far
VARIABLES
    did     \* the DID tables: DID_LOOKUP of utils.uds_decoder and the DID_LOOKUP
            \* that gui.tabs.can_monitor_tab imported from it
VARIABLES
    cnt     \* the frame counter of a CANInterface: _frame_count, the frames
            \* published, and each thread's position in its increment

evars == <<tab, can, out, hist>>

tvars == <<ifc, thr, obs>>

cvars == <<cdc, rxs, did, cnt>>

vars == <<tab, can, out, hist, ifc, thr, obs, cdc, rxs, did, cnt>>

----------------------------------------------------------------------------
(* Bounds of the model *)

\* attempt limit of the lock-out scenario (three invalid keys at limit 3)
AttemptLimit == 3

\* frames published in a run of the frame counter
FrameLimit == 3

----------------------------------------------------------------------------
(* Program constants *)

DIAGNOSTIC_SESSION == \h10
SECURITY_ACCESS == \h27
READ_DATA == \h22
TESTER_PRESENT == \h3E
NEGATIVE_RESPONSE == \h7F

NRC_INVALID_KEY == \h35
NRC_EXCEEDED_ATTEMPTS == \h36

ResponseTimeoutMs == 3000
TesterPresentMs == 2000
max_data_bytes == 8

\* entries of security_level_combo the model selects among ("01", "03")
SecurityLevels == {\h01, \h03}

\* entries of session_combo the model selects among: currentIndex() + 1 of
\* "02 - Programming Session" (the default) and "03 - Extended Diagnostic"
SessionTypes == {2, 3}

\* tx_id / rx_id of the vehicle profiles (all but Honda share 7E0 / 7E8)
DefaultTxId == "7E0"
DefaultRxId == "7E8"

----------------------------------------------------------------------------
(* Helpers *)

Last(s) == s[Len(s)]

Min(a, b) == IF a < b THEN a ELSE b

\* data[i:] of a Python list, i counted from 0
Tail_from(data, i) == SubSeq(data, i + 1, Len(data))

RECURSIVE GCD(_, _)
GCD(a, b) == IF b = 0 THEN a ELSE GCD(b, a % b)

\* the clock's step in ms: both timer intervals are multiples of it
Quantum == GCD(ResponseTimeoutMs, TesterPresentMs)

\* QTimer: start(ms) (re)starts the interval, stop() deactivates
TimerStopped == [active |-> FALSE, remaining |-> 0]

TimerStart(ms) == [active |-> TRUE, remaining |-> ms]

CANFrame(can_id, data) == [can_id |-> can_id, data |-> data]

\* KeyToolsTab._log: one line appended to the log display
_log(w, message) == [w EXCEPT !.log = Append(@, message)]

----------------------------------------------------------------------------
(* KeyToolsTab: handlers of received frames *)

\* faulty variant: the seed is cut from data[1:], so it keeps the sub-function byte
_handle_security_response_SeedOffByOne(w, data) ==
    IF Len(data) < 2 THEN w
    ELSE LET sub_func == data[2] IN
         IF sub_func % 2 = 1 /\ Len(data) >= 4
         THEN _log([w EXCEPT !.tab.current_seed = Tail_from(data, 1),
                             !.tab.send_key_btn = TRUE],
                   "Seed received")
         ELSE IF sub_func % 2 = 0
         THEN _log([w EXCEPT !.tab.security_unlocked = TRUE,
                             !.tab.security_status = "UNLOCKED"],
                   "Security access GRANTED!")
         ELSE w

_handle_security_response(w, data) ==
    IF Len(data) < 2 THEN w
    ELSE LET sub_func == data[2] IN
         IF sub_func % 2 = 1 /\ Len(data) >= 4
         THEN _log([w EXCEPT !.tab.current_seed = Tail_from(data, 2),
                             !.tab.send_key_btn = TRUE],
                   "Seed received")
         ELSE IF sub_func % 2 = 0
         THEN _log([w EXCEPT !.tab.security_unlocked = TRUE,
                             !.tab.security_status = "UNLOCKED"],
                   "Security access GRANTED!")
         ELSE w

_handle_session_response(w, data) ==
    _log([w EXCEPT !.tab.session_active = TRUE,
                   !.tab.tester_present_timer = TimerStart(TesterPresentMs)],
         "Diagnostic session started")

_handle_read_response(w, data) ==
    IF Len(data) < 4 THEN w
    ELSE _log(w, "Read response")

_handle_negative_response(w, data) ==
    IF Len(data) < 3 THEN w
    ELSE LET nrc == data[3]
             w1 == _log(w, "Negative Response")
         IN  IF nrc = NRC_INVALID_KEY
             THEN [w1 EXCEPT !.tab.security_status = "Invalid Key!"]
             ELSE IF nrc = NRC_EXCEEDED_ATTEMPTS
             THEN _log([w1 EXCEPT !.tab.security_status = "Locked Out!"],
                       "Security Lockout")
             ELSE w1

_handle_frame(w, frame) ==
    IF frame.can_id # w.tab.rx_id_edit THEN w
    ELSE LET w1 == _log(w, "RX") IN
         IF frame.data = <<>> THEN w1
         ELSE LET sid == frame.data[1] IN
              IF sid = SECURITY_ACCESS + \h40
              THEN _handle_security_response(w1, frame.data)
              ELSE IF sid = DIAGNOSTIC_SESSION + \h40
              THEN _handle_session_response(w1, frame.data)
              ELSE IF sid = READ_DATA + \h40
              THEN _handle_read_response(w1, frame.data)
              ELSE IF sid = NEGATIVE_RESPONSE
              THEN _handle_negative_response(w1, frame.data)
              ELSE w1

\* faulty variant: the timeout also ends the session and forgets the seed
_handle_timeout_EndsSession(w) ==
    _log([w EXCEPT !.tab.response_timeout = TimerStopped,
                   !.tab.pending_response = FALSE,
                   !.tab.session_active = FALSE,
                   !.tab.current_seed = <<>>,
                   !.tab.tester_present_timer = TimerStopped],
         "Response timeout")

_handle_timeout(w) ==
    _log([w EXCEPT !.tab.response_timeout = TimerStopped,
                   !.tab.pending_response = FALSE],
         "Response timeout")

_update_connection_status(w, connected) ==
    [w EXCEPT !.tab.connection_indicator = IF connected THEN "green" ELSE "red"]

----------------------------------------------------------------------------
(* CANInterface *)

\* send_frame: the updated world and the value returned.  io_ok is the outcome
\* of the serial write (SerialException or not); the simulation echoes the
\* frame on frame_received, which runs the tab's _handle_frame slot.
send_frame(w, frame, io_ok) ==
    IF ~w.can.running THEN [w |-> w, ok |-> FALSE]
    ELSE IF Len(frame.data) > max_data_bytes THEN [w |-> w, ok |-> FALSE]
    ELSE IF w.can.simulate
    THEN [w |-> _handle_frame([w EXCEPT !.tx = Append(@, frame.data)], frame),
          ok |-> TRUE]
    ELSE IF ~w.can.serial_open THEN [w |-> w, ok |-> FALSE]
    ELSE IF io_ok THEN [w |-> [w EXCEPT !.tx = Append(@, frame.data)], ok |-> TRUE]
    ELSE [w |-> w, ok |-> FALSE]

_close_serial(w) ==
    IF w.can.serial_open
    THEN _update_connection_status([w EXCEPT !.can.serial_open = FALSE], FALSE)
    ELSE w

\* start(): open_ok is whether serial.Serial(...) opens the port
start(w, open_ok) ==
    IF w.can.running THEN w
    ELSE IF ~w.can.simulate /\ ~open_ok
    THEN _update_connection_status(w, FALSE)
    ELSE _update_connection_status(
             [w EXCEPT !.can.running = TRUE,
                       !.can.serial_open = ~w.can.simulate],
             TRUE)

stop(w) ==
    _update_connection_status(_close_serial([w EXCEPT !.can.running = FALSE]), FALSE)

----------------------------------------------------------------------------
(* KeyToolsTab: UDS commands *)

\* faulty variant: pending_response is set whether or not the frame was sent
_send_uds_frame_PendingOnFailure(w, data, io_ok) ==
    LET frame == CANFrame(w.tab.tx_id_edit, data)
        w1 == _log(w, "TX")
        r == send_frame(w1, frame, io_ok)
    IN  IF r.ok
        THEN [r.w EXCEPT !.tab.response_timeout = TimerStart(ResponseTimeoutMs),
                         !.tab.pending_response = TRUE]
        ELSE [_log(r.w, "Failed to send frame") EXCEPT !.tab.pending_response = TRUE]

_send_uds_frame(w, data, io_ok) ==
    LET frame == CANFrame(w.tab.tx_id_edit, data)
        w1 == _log(w, "TX")
        r == send_frame(w1, frame, io_ok)
    IN  IF r.ok
        THEN [r.w EXCEPT !.tab.response_timeout = TimerStart(ResponseTimeoutMs),
                         !.tab.pending_response = TRUE]
        ELSE _log(r.w, "Failed to send frame")

_start_diagnostic_session(w, session_type, io_ok) ==
    _send_uds_frame(w, <<DIAGNOSTIC_SESSION, session_type>>, io_ok)

_request_seed(w, io_ok) ==
    _send_uds_frame(w, <<SECURITY_ACCESS, w.tab.security_level_combo>>, io_ok)

_read_vin(w, io_ok) ==
    _send_uds_frame(w, <<READ_DATA, \hF1, \h90>>, io_ok)

_send_tester_present(w, io_ok) ==
    IF w.tab.session_active
    THEN _send_uds_frame(w, <<TESTER_PRESENT, \h00>>, io_ok)
    ELSE w

\* text.replace(" ", "")
RemoveSpaces(text) == SelectSeq(text, LAMBDA c : c # " ")

HexDigits == <<"0", "1", "2", "3", "4", "5", "6", "7", "8", "9",
               "A", "B", "C", "D", "E", "F">>

IsHexDigit(c) == \E i \in 1..Len(HexDigits) : HexDigits[i] = c

HexValue(c) == (CHOOSE i \in 1..Len(HexDigits) : HexDigits[i] = c) - 1

\* int(chunk, 16) of a chunk of one or two hex digits
Int16(chunk) ==
    IF Len(chunk) = 2
    THEN 16 * HexValue(chunk[1]) + HexValue(chunk[2])
    ELSE HexValue(chunk[1])

\* int(..., 16) raises ValueError on a chunk that is not hex digits
RaisesValueError(text) == \E i \in 1..Len(text) : ~IsHexDigit(text[i])

\* [int(text[i:i+2], 16) for i in range(0, len(text), 2)]
HexBytes(text) ==
    [k \in 1..((Len(text) + 1) \div 2) |->
        Int16(SubSeq(text, 2 * k - 1, Min(2 * k, Len(text))))]

_send_key(w, key_input, io_ok) ==
    LET key_text == RemoveSpaces(key_input) IN
    IF RaisesValueError(key_text)
    THEN _log(w, "Invalid key format")
    ELSE LET key_bytes == HexBytes(key_text)
             level == w.tab.security_level_combo + 1
         IN  _send_uds_frame(w, <<SECURITY_ACCESS, level>> \o key_bytes, io_ok)

----------------------------------------------------------------------------
(* Inputs *)

\* texts typed into key_input: two bytes with a space, not hex, and seven
\* bytes (a frame of nine bytes)
KeyTexts ==
    { <<"1", "2", " ", "3", "4">>,
      <<"Z", "Z">>,
      <<"0", "1", "0", "2", "0", "3", "0", "4", "0", "5", "0", "6", "0", "7">> }

\* frames the read loop or the simulation generator publishes
RxData ==
    { <<>>,
      <<\h50, \h03>>,
      <<\h67>>,
      <<\h67, \h01, \hAA>>,
      <<\h67, \h01, \hAA, \hBB>>,
      <<\h67, \h03, \h11, \h22>>,
      <<\h67, \h02>>,
      <<\h62, \hF1, \h90, \h41>>,
      <<\h7E, \h00>>,
      <<\h7F, \h27>>,
      <<\h7F, \h27, \h35>>,
      <<\h7F, \h27, \h36>>,
      <<\h7F, \h10, \h22>> }

RxIds == {DefaultRxId, "123"}

\* outcome of the serial write of a send; the simulation never writes
WriteOutcomes == IF can.simulate THEN {TRUE} ELSE BOOLEAN

----------------------------------------------------------------------------
(* History of the run *)

Event(op, id, data) == [op |-> op, id |-> id, data |-> data]

IsKeyRequest(req) == Len(req) >= 2 /\ req[1] = SECURITY_ACCESS /\ req[2] % 2 = 0

IsSeedRequest(req) == Len(req) >= 2 /\ req[1] = SECURITY_ACCESS /\ req[2] % 2 = 1

IsSessionRequest(req) == Len(req) >= 2 /\ req[1] = DIAGNOSTIC_SESSION

\* a response that answers request req: its service id + 0x40, or 0x7F
Answers(req, data) ==
    /\ req # <<>>
    /\ data # <<>>
    /\ (data[1] = req[1] + \h40 \/ data[1] = NEGATIVE_RESPONSE)

\* the frame is one the tab handles (it is on the configured response id)
OnRxId(e) == e.op = "rx" /\ e.id = tab.rx_id_edit

\* the outstanding request: the last one sent, until a response that answers
\* it is handled or the timeout handler runs
NextReq(e, w2) ==
    IF w2.tx # <<>> THEN Last(w2.tx)
    ELSE IF e.op = "timeout" THEN <<>>
    ELSE IF OnRxId(e) /\ Answers(hist.req, e.data) THEN <<>>
    ELSE hist.req

\* consecutive key requests answered by NRC 0x35 (invalid key)
NextBadKeys(e) ==
    IF OnRxId(e) /\ IsKeyRequest(hist.req) /\ Answers(hist.req, e.data)
    THEN IF Len(e.data) >= 3 /\ e.data[1] = NEGATIVE_RESPONSE
            /\ e.data[2] = SECURITY_ACCESS /\ e.data[3] = NRC_INVALID_KEY
         THEN Min(hist.bad_keys + 1, AttemptLimit)
         ELSE IF e.data[1] = SECURITY_ACCESS + \h40 THEN 0
         ELSE hist.bad_keys
    ELSE hist.bad_keys

\* position in the scenario  start_session, 50 03, request_seed(01),
\* 67 01 AA BB, send_key(key), 67 02  on a running simulated interface
NextScn(e, w2) ==
    LET sent == w2.tx # <<>>
        rx(d) == OnRxId(e) /\ e.data = d
        p == hist.scn
    IN  IF e.op \in {"clock", "timeout", "keepalive", "start"} THEN p
        ELSE IF e.op = "rx" /\ ~OnRxId(e) THEN p
        ELSE IF p = "idle" /\ e.op = "start_session" /\ sent /\ can.simulate
        THEN "session_requested"
        ELSE IF p = "session_requested" /\ rx(<<\h50, \h03>>) THEN "session_active"
        ELSE IF p = "session_active" /\ e.op = "request_seed" /\ sent
                /\ Last(w2.tx) = <<SECURITY_ACCESS, \h01>>
        THEN "seed_requested"
        ELSE IF p = "seed_requested" /\ rx(<<\h67, \h01, \hAA, \hBB>>) THEN "seed_held"
        ELSE IF p = "seed_held" /\ e.op = "send_key" /\ sent THEN "key_sent"
        ELSE IF p = "key_sent" /\ rx(<<\h67, \h02>>) THEN "done"
        ELSE "off"

\* the level of the seed request that produced the held seed: the
\* sub-function the seed response echoes, recorded when a seed is stored
NextSeedLevel(e, w2) ==
    IF \E i \in 1..Len(w2.log) : w2.log[i] = "Seed received"
    THEN e.data[2]
    ELSE hist.seed_level

Observe(e, w2) ==
    [req |-> NextReq(e, w2), bad_keys |-> NextBadKeys(e), scn |-> NextScn(e, w2),
     seed_level |-> NextSeedLevel(e, w2)]

----------------------------------------------------------------------------
(* The interface object and its threads *)

\* the caller of the interface's methods: the GUI thread
MainThread == 0

\* the loop threads that can be alive at once in the model
LoopThreads == {1, 2}

Threads == {MainThread} \cup LoopThreads

\* values of reconnect_attempts the model constructs and configures with:
\* the least, that of main.py, and one that lets attempts 0..5 happen
ReconnectAttemptChoices == {1, 3, 6}

\* Thread.join(timeout=2)
JoinTimeoutS == 2

\* MultiProtocolInterface: self.can_bitrate = 500000
DefaultBitrate == 500000

\* SLCANProtocol.BITRATES
BITRATES ==
    (10000 :> <<"S", "0">>) @@ (20000 :> <<"S", "1">>) @@ (50000 :> <<"S", "2">>)
    @@ (100000 :> <<"S", "3">>) @@ (125000 :> <<"S", "4">>) @@ (250000 :> <<"S", "5">>)
    @@ (500000 :> <<"S", "6">>) @@ (800000 :> <<"S", "7">>) @@ (1000000 :> <<"S", "8">>)

SLCANProtocol_open_channel == <<"O", "\r">>

SLCANProtocol_close_channel == <<"C", "\r">>

\* SLCANProtocol.set_bitrate: BITRATES.get(bitrate, 'S6') and a carriage return
SLCANProtocol_set_bitrate(bitrate) ==
    (IF bitrate \in DOMAIN BITRATES THEN BITRATES[bitrate] ELSE <<"S", "6">>) \o <<"\r">>

\* faulty variant: the channel is opened before the bitrate is set
_init_slcan_OpensBeforeBitrate(can_bitrate) ==
    <<SLCANProtocol_close_channel, SLCANProtocol_open_channel,
      SLCANProtocol_set_bitrate(can_bitrate)>>

\* _init_slcan: the commands it writes to the handle, in order
_init_slcan(can_bitrate) ==
    <<SLCANProtocol_close_channel, SLCANProtocol_set_bitrate(can_bitrate),
      SLCANProtocol_open_channel>>

\* the bitrates connect() is called with: one of BITRATES and one of
\* CAN_BITRATES that BITRATES does not hold
ConnectBitrates == {250000, 33333}

Max(a, b) == IF a > b THEN a ELSE b

\* CANInterface.__init__
CANInterface__init__(simulate, reconnect_attempts) ==
    [kind |-> "CANInterface",
     simulate |-> simulate,
     _reconnect_attempts |-> Max(1, reconnect_attempts),
     auto_reconnect |-> FALSE,
     _running |-> FALSE,
     _serial |-> FALSE,
     _thread |-> {},
     _lock |-> {},
     can_bitrate |-> 0,
     written |-> <<>>]

\* MultiProtocolInterface.__init__: interface_type is SIMULATION; it has no
\* reconnect settings.  written is history: the control commands the open
\* handle has been given, in order
MultiProtocolInterface__init__ ==
    [kind |-> "MultiProtocolInterface",
     simulate |-> TRUE,
     _reconnect_attempts |-> 1,
     auto_reconnect |-> FALSE,
     _running |-> FALSE,
     _serial |-> FALSE,
     _thread |-> {},
     _lock |-> {},
     can_bitrate |-> DefaultBitrate,
     written |-> <<>>]

\* a thread at position pc: attempt and delay are the read loop's locals, err
\* and steady are history (a read of the handle has failed and the thread has
\* not closed it; the thread is in a run of reconnects that began at attempt 0
\* and has seen no reopen succeed and no change of the settings)
ThreadAt(pc) == [pc |-> pc, attempt |-> 0, delay |-> 0, err |-> FALSE, steady |-> FALSE]

\* no loop thread exists, the caller is between calls
NoLoopThreads == [t \in Threads |-> IF t = MainThread THEN ThreadAt("idle") ELSE ThreadAt("none")]

NothingObserved == [ev |-> {}, stopped |-> FALSE]

\* no codec has been called
NoCall == [op |-> "none"]

\* no receiving interface has been set up
NoStream == [kind |-> "none"]

\* utils.uds_decoder is not imported
NotImported == [imported |-> FALSE]

\* no interface counts frames
NoCounter == [kind |-> "none"]

----------------------------------------------------------------------------
(* State machine *)

World == [tab |-> tab, can |-> can, log |-> <<>>, tx |-> <<>>]

Commit(w2, src, e) ==
    /\ tab' = w2.tab
    /\ can' = w2.can
    /\ out' = [log |-> w2.log, tx |-> w2.tx, src |-> src]
    /\ hist' = Observe(e, w2)
    /\ UNCHANGED tvars
    /\ UNCHANGED cvars

KeyToolsTab__init__ ==
    [current_seed |-> <<>>,
     session_active |-> FALSE,
     security_unlocked |-> FALSE,
     pending_response |-> FALSE,
     response_timeout |-> TimerStopped,
     tester_present_timer |-> TimerStopped,
     send_key_btn |-> FALSE,
     security_status |-> "Locked",
     security_level_combo |-> \h01,
     connection_indicator |-> "o",
     tx_id_edit |-> DefaultTxId,
     rx_id_edit |-> DefaultRxId]

\* KeyToolsTab.__init__ and CANInterface.__init__
Init ==
    /\ tab = KeyToolsTab__init__
    /\ can \in [running : {FALSE}, simulate : BOOLEAN, serial_open : {FALSE}]
    /\ out = [log |-> <<>>, tx |-> <<>>, src |-> "init"]
    /\ hist = [req |-> <<>>, bad_keys |-> 0, scn |-> "idle", seed_level |-> 0]
    /\ ifc = CANInterface__init__(can.simulate, 3)
    /\ thr = NoLoopThreads
    /\ obs = NothingObserved
    /\ cdc = NoCall
    /\ rxs = NoStream
    /\ did = NotImported
    /\ cnt = NoCounter

\* outcome of opening the serial port; the simulation opens none
OpenOutcomes == IF can.simulate THEN {TRUE} ELSE BOOLEAN

Start ==
    \E open_ok \in OpenOutcomes :
        Commit(start(World, open_ok), "user", Event("start", "", <<>>))

Stop ==
    /\ Commit(stop(World), "user", Event("stop", "", <<>>))

\* the read loop meets a SerialException and closes the handle
SerialError ==
    /\ ~can.simulate /\ can.running /\ can.serial_open
    /\ Commit(_close_serial(World), "bus", Event("serial_error", "", <<>>))

\* the read loop finds the handle closed (auto_reconnect is False), emits
\* connection_lost and calls stop() on its own thread: _running is cleared and
\* Thread.join on the current thread raises RuntimeError, which ends the loop
\* before _close_serial and connection_changed.emit(False) are reached
ReadLoopGivesUp ==
    /\ ~can.simulate /\ can.running /\ ~can.serial_open
    /\ Commit([World EXCEPT !.can.running = FALSE], "bus",
              Event("connection_lost", "", <<>>))

StartSession ==
    \E session_type \in SessionTypes, io_ok \in WriteOutcomes :
        Commit(_start_diagnostic_session(World, session_type, io_ok), "user",
               Event("start_session", "", <<>>))

RequestSeed ==
    \E io_ok \in WriteOutcomes :
        Commit(_request_seed(World, io_ok), "user", Event("request_seed", "", <<>>))

\* a click on send_key_btn: a disabled button emits no clicked()
SendKey ==
    /\ tab.send_key_btn
    /\ \E key_input \in KeyTexts, io_ok \in WriteOutcomes :
           Commit(_send_key(World, key_input, io_ok), "user",
                  Event("send_key", "", <<>>))

ReadVin ==
    \E io_ok \in WriteOutcomes :
        Commit(_read_vin(World, io_ok), "user", Event("read_vin", "", <<>>))

SelectSecurityLevel ==
    \E level \in SecurityLevels :
        /\ level # tab.security_level_combo
        /\ Commit([World EXCEPT !.tab.security_level_combo = level], "user",
                  Event("select_level", "", <<>>))

\* frame_received delivered to the tab's slot
ReceiveFrame ==
    /\ can.running
    /\ can.simulate \/ can.serial_open
    /\ \E id \in RxIds, data \in RxData :
           /\ can.simulate => data # <<>>
           /\ Commit(_handle_frame(World, CANFrame(id, data)), "bus",
                     Event("rx", id, data))

TimerDue(t) == t.active /\ t.remaining = 0

TimerAfter(t, d) == IF t.active THEN [t EXCEPT !.remaining = @ - d] ELSE t

\* time passes, up to the next instant a running timer is due
Elapse ==
    LET rt == tab.response_timeout
        tp == tab.tester_present_timer
        d == Min(Quantum,
                 Min(IF rt.active THEN rt.remaining ELSE Quantum,
                     IF tp.active THEN tp.remaining ELSE Quantum))
    IN  /\ rt.active \/ tp.active
        /\ ~TimerDue(rt) /\ ~TimerDue(tp)
        /\ Commit([World EXCEPT !.tab.response_timeout = TimerAfter(rt, d),
                                !.tab.tester_present_timer = TimerAfter(tp, d)],
                  "clock", Event("clock", "", <<>>))

\* response_timeout.timeout -> _handle_timeout
ResponseTimeoutFires ==
    /\ TimerDue(tab.response_timeout)
    /\ Commit(_handle_timeout(
                  [World EXCEPT !.tab.response_timeout = TimerStart(ResponseTimeoutMs)]),
              "timer", Event("timeout", "", <<>>))

\* tester_present_timer.timeout -> _send_tester_present; the timer repeats
TesterPresentFires ==
    /\ TimerDue(tab.tester_present_timer)
    /\ \E io_ok \in WriteOutcomes :
           Commit(_send_tester_present(
                      [World EXCEPT !.tab.tester_present_timer =
                                        TimerStart(TesterPresentMs)],
                      io_ok),
                  "timer", Event("keepalive", "", <<>>))

Next ==
    \/ Start
    \/ Stop
    \/ SerialError
    \/ ReadLoopGivesUp
    \/ StartSession
    \/ RequestSeed
    \/ SendKey
    \/ ReadVin
    \/ SelectSecurityLevel
    \/ ReceiveFrame
    \/ Elapse
    \/ ResponseTimeoutFires
    \/ TesterPresentFires

Spec == Init /\ [][Next]_vars

\* the Qt event loop keeps running: time passes and due timers fire
FairSpec ==
    /\ Spec
    /\ WF_vars(Elapse)
    /\ WF_vars(ResponseTimeoutFires)
    /\ WF_vars(TesterPresentFires)

----------------------------------------------------------------------------
(* Transport threads: decisions of the loops *)

\* faulty variant: the delay keeps doubling, the cap of 10 s is lost
_attempt_reconnect_delay_Uncapped(attempt) == 2 ^ attempt

\* _attempt_reconnect: delay = min(2 ** attempt, 10)
_attempt_reconnect_delay(attempt) == Min(2 ^ attempt, 10)

\* faulty variant: the loop reconnects whether or not auto_reconnect is set
_serial_read_loop_gives_up_IgnoresAutoReconnect(auto_reconnect, attempt, reconnect_attempts) ==
    attempt >= reconnect_attempts

\* faulty variant: the loop makes one reconnect attempt more than configured
_serial_read_loop_gives_up_OneAttemptMore(auto_reconnect, attempt, reconnect_attempts) ==
    ~auto_reconnect \/ attempt > reconnect_attempts

\* _serial_read_loop, with the handle closed:
\* not self.auto_reconnect or attempt >= self._reconnect_attempts
_serial_read_loop_gives_up(auto_reconnect, attempt, reconnect_attempts) ==
    ~auto_reconnect \/ attempt >= reconnect_attempts

\* faulty variant: the read loop leaves its read still holding the lock
_read_loop_lock_after_read_Held(t) == {t}

\* MultiProtocolInterface._read_loop: the with-block around in_waiting and
\* read() has been left, the lock is free again
_read_loop_lock_after_read(t) == {}

----------------------------------------------------------------------------
(* Transport threads: state machine *)

IsCAN == ifc.kind = "CANInterface"

IsMulti == ifc.kind = "MultiProtocolInterface"

At(t, pc) == thr[t].pc = pc

Alive(t) == thr[t].pc # "none"

Goto(th, t, pc) == [th EXCEPT ![t].pc = pc]

Exit(th, t) == [th EXCEPT ![t] = ThreadAt("none")]

Unsteady(th) == [t \in Threads |-> [th[t] EXCEPT !.steady = FALSE]]

FreeSlots == {t \in LoopThreads : ~Alive(t)}

\* the thread object threading.Thread(...) creates
NewThread == CHOOSE t \in FreeSlots : \A u \in FreeSlots : t <= u

Emit(signals) == [obs EXCEPT !.ev = signals]

TStep(i2, t2, o2) ==
    /\ ifc' = i2
    /\ thr' = t2
    /\ obs' = o2
    /\ UNCHANGED evars
    /\ UNCHANGED cvars

\* positions at which a thread waits for the lock, and where it is once it
\* holds it
LockWait ==
    [start_lock |-> "start_open",
     stop_lock |-> "stop_close",
     reopen_lock |-> "reopen",
     close_lock |-> "close",
     read_lock |-> "read",
     connect_lock |-> "connect_open"]

\* with self._serial_lock / with self._lock, outside send_frame
Acquire ==
    \E t \in Threads :
        /\ thr[t].pc \in DOMAIN LockWait
        /\ ifc._lock = {}
        /\ TStep([ifc EXCEPT !._lock = {t}],
                 Goto(thr, t, IF IsMulti /\ At(t, "stop_lock") /\ ifc._serial
                              THEN "disconnect_write" ELSE LockWait[thr[t].pc]),
                 Emit({}))

\* stop() and disconnect(), from their first statement up to the join
StopBegins(t) ==
    TStep([ifc EXCEPT !._running = FALSE],
          Goto(thr, t, IF ifc._thread # {} THEN "stop_join" ELSE "stop_lock"),
          Emit({}))

\* CANInterface.start, up to _open_serial's wait for the lock; the simulation
\* opens nothing and starts its thread at once
StartCall ==
    /\ IsCAN
    /\ At(MainThread, "idle")
    /\ ifc._running \/ FreeSlots # {}
    /\ IF ifc._running
       THEN TStep(ifc, thr, Emit({"start:True"}))
       ELSE IF ifc.simulate
       THEN TStep([ifc EXCEPT !._running = TRUE, !._thread = {NewThread}],
                  [thr EXCEPT ![NewThread] = ThreadAt("sim_top")],
                  [ev |-> {"connection_changed(True)", "start:True"}, stopped |-> FALSE])
       ELSE TStep([ifc EXCEPT !._running = TRUE],
                  Goto(thr, MainThread, "start_lock"),
                  [ev |-> {}, stopped |-> FALSE])

\* _open_serial inside start(): serial.Serial(...) opens the port or raises
\* SerialException; then the rest of start()
StartOpened ==
    /\ At(MainThread, "start_open")
    /\ \E ok \in BOOLEAN :
           IF ok
           THEN TStep([ifc EXCEPT !._lock = {}, !._serial = TRUE, !._thread = {NewThread}],
                      [Unsteady(Goto(thr, MainThread, "idle")) EXCEPT
                           ![NewThread] = ThreadAt("top")],
                      Emit({"connection_changed(True)", "start:True"}))
           ELSE TStep([ifc EXCEPT !._lock = {}, !._running = FALSE],
                      Goto(thr, MainThread, "idle"),
                      Emit({"SerialException", "connection_changed(False)", "start:False"}))

\* CANInterface.stop called by the GUI thread
StopCall ==
    /\ IsCAN
    /\ At(MainThread, "idle")
    /\ StopBegins(MainThread)

\* join(timeout=2) returns: the thread has ended, or it is still alive after
\* 2 s (the interface is running again, the thread sleeps longer than that,
\* or it is itself inside a join)
JoinReturns(target) ==
    \/ ~Alive(target)
    \/ ifc._running
    \/ At(target, "sleep") /\ thr[target].delay > JoinTimeoutS
    \/ At(target, "stop_join")

StopJoin ==
    \E t \in Threads :
        /\ At(t, "stop_join")
        /\ \A target \in ifc._thread : JoinReturns(target)
        /\ TStep([ifc EXCEPT !._thread = {}], Goto(thr, t, "stop_lock"), Emit({}))

\* _close_serial and the end of stop() (CANInterface), the locked block and
\* the end of disconnect() (MultiProtocolInterface); a loop thread that has
\* run stop() leaves its loop
StopClose ==
    \E t \in Threads :
        /\ At(t, "stop_close")
        /\ TStep([ifc EXCEPT !._lock = {}, !._serial = FALSE, !.written = <<>>],
                 IF t = MainThread THEN Goto(thr, t, "idle") ELSE Exit(thr, t),
                 [ev |-> {"connection_changed(False)"},
                  stopped |-> IF t = MainThread THEN TRUE ELSE obs.stopped])

\* send_frame, up to its wait for the lock
SendCall ==
    /\ At(MainThread, "idle")
    /\ IF ~ifc._running
       THEN TStep(ifc, thr, Emit({"send:False"}))
       ELSE IF IsCAN /\ ifc.simulate
       THEN TStep(ifc, thr, Emit({"frame_received", "send:True"}))
       ELSE TStep(ifc, Goto(thr, MainThread, "send_lock"), Emit({}))

\* send_frame takes the lock: without a handle it returns at once
\* (CANInterface: "Serial not open"; MultiProtocolInterface: the simulation
\* echoes the frame, a missing handle raises and is reported)
SendLock ==
    /\ At(MainThread, "send_lock")
    /\ ifc._lock = {}
    /\ IF IsMulti /\ ifc.simulate
       THEN TStep(ifc, Goto(thr, MainThread, "idle"), Emit({"frame_received", "send:True"}))
       ELSE IF ~ifc._serial
       THEN TStep(ifc, Goto(thr, MainThread, "idle"),
                  Emit(IF IsMulti THEN {"error_occurred", "send:False"} ELSE {"send:False"}))
       ELSE TStep([ifc EXCEPT !._lock = {MainThread}],
                  Goto(thr, MainThread, "send_write"), Emit({}))

\* the write under the lock returns or raises
SendWritten ==
    /\ At(MainThread, "send_write")
    /\ \E ok \in BOOLEAN :
           TStep([ifc EXCEPT !._lock = {}], Goto(thr, MainThread, "idle"),
                 Emit(IF ok THEN {"send:True"}
                      ELSE IF IsMulti THEN {"error_occurred", "send:False"}
                      ELSE {"send:False"}))

\* CANMonitorTab._init_slcan / disconnect_serial: can_interface._serial.write
\* from the GUI thread, without the lock
SlcanWrite ==
    /\ IsCAN
    /\ At(MainThread, "idle")
    /\ ifc._serial
    /\ TStep(ifc, Goto(thr, MainThread, "slcan_write"), Emit({}))

SlcanWritten ==
    /\ At(MainThread, "slcan_write")
    /\ TStep(ifc, Goto(thr, MainThread, "idle"), Emit({}))

\* SettingsDialog.accept: set_reconnect_attempts and auto_reconnect
Configure ==
    /\ IsCAN
    /\ At(MainThread, "idle")
    /\ \E attempts \in ReconnectAttemptChoices, auto \in BOOLEAN :
           /\ <<attempts, auto>> # <<ifc._reconnect_attempts, ifc.auto_reconnect>>
           /\ TStep([ifc EXCEPT !._reconnect_attempts = Max(1, attempts),
                                !.auto_reconnect = auto],
                    Unsteady(thr), Emit({}))

\* _serial_read_loop: the loop test, the test of the handle and what follows
\* up to the next blocking call.  A loop that gives up emits connection_lost
\* and runs stop(): joining itself raises RuntimeError, which ends the thread
LoopTop ==
    \E t \in LoopThreads :
        /\ IsCAN
        /\ At(t, "top")
        /\ IF ~ifc._running
           THEN TStep(ifc, Exit(thr, t), Emit({}))
           ELSE IF ifc._serial
           THEN TStep(ifc, Goto(thr, t, "readline"), Emit({}))
           ELSE IF _serial_read_loop_gives_up(ifc.auto_reconnect, thr[t].attempt,
                                              ifc._reconnect_attempts)
           THEN TStep([ifc EXCEPT !._running = FALSE],
                      IF ifc._thread = {t} THEN Exit(thr, t)
                      ELSE Goto(thr, t, IF ifc._thread # {} THEN "stop_join"
                                        ELSE "stop_lock"),
                      Emit({"connection_lost"}))
           ELSE TStep(ifc,
                      [thr EXCEPT ![t].pc = "sleep",
                                  ![t].delay = _attempt_reconnect_delay(thr[t].attempt),
                                  ![t].steady = @ \/ thr[t].attempt = 0],
                      Emit({}))

\* _attempt_reconnect: time.sleep(delay) returns
LoopWake ==
    \E t \in LoopThreads :
        /\ At(t, "sleep")
        /\ TStep(ifc, [thr EXCEPT ![t].pc = "reopen_lock", ![t].delay = 0], Emit({}))

\* _open_serial inside _attempt_reconnect, then attempt += 1
Reopened ==
    \E t \in LoopThreads :
        /\ At(t, "reopen")
        /\ \E ok \in BOOLEAN :
               LET th == [thr EXCEPT ![t].pc = "top", ![t].attempt = @ + 1] IN
               IF ok
               THEN TStep([ifc EXCEPT !._lock = {}, !._serial = TRUE], Unsteady(th),
                          Emit({"connection_changed(True)"}))
               ELSE TStep([ifc EXCEPT !._lock = {}], th,
                          Emit({"SerialException", "connection_changed(False)"}))

\* what self._serial.readline() does: it returns a line the parser takes, a
\* line with text the parser rejects, a line of nothing but its terminator
\* and white space, nothing at all within its timeout, or it raises
ReadOutcomes == {"frame", "malformed", "blank", "timeout", "error"}

\* the outcome of a readline() call as an observation of the step
Readline ==
    [frame |-> "readline:frame", malformed |-> "readline:malformed",
     blank |-> "readline:blank", timeout |-> "readline:timeout",
     error |-> "readline:error"]

\* _serial_read_loop: attempt = 0 stands inside "if line:", after the parser
\* has been called: the stripped line is not empty
_serial_read_loop_resets(got) == got \in {"frame", "malformed"}

\* self._serial.readline().decode().strip() and the rest of the try block;
\* on a handle another thread has closed readline raises
ReadDone ==
    \E t \in LoopThreads :
        /\ At(t, "readline")
        /\ \E r \in ReadOutcomes :
               /\ ~ifc._serial => r = "error"
               /\ IF r # "error"
                  THEN TStep(ifc,
                             IF _serial_read_loop_resets(r)
                             THEN [thr EXCEPT ![t].pc = "top", ![t].attempt = 0,
                                              ![t].steady = FALSE]
                             ELSE Goto(thr, t, "top"),
                             Emit({Readline[r]}
                                  \cup IF r = "frame" THEN {"frame_received"} ELSE {}))
                  ELSE IF ifc._serial
                  THEN TStep(ifc, [thr EXCEPT ![t].pc = "close_lock", ![t].err = TRUE],
                             Emit({Readline[r]}))
                  ELSE TStep(ifc, Goto(thr, t, "top"), Emit({Readline[r]}))

\* _close_serial after a failed read
Closed ==
    \E t \in LoopThreads :
        /\ At(t, "close")
        /\ TStep([ifc EXCEPT !._lock = {}, !._serial = FALSE],
                 [thr EXCEPT ![t].pc = "top", ![t].err = FALSE],
                 Emit(IF ifc._serial THEN {"connection_changed(False)"} ELSE {}))

\* _simulate_frames / _simulation_loop: one frame, then _running.wait(timeout)
SimTick ==
    \E t \in LoopThreads :
        /\ At(t, "sim_top")
        /\ IF ifc._running
           THEN TStep(ifc, Goto(thr, t, "sim_wait"), Emit({"frame_received"}))
           ELSE TStep(ifc, Exit(thr, t), Emit({}))

SimWait ==
    \E t \in LoopThreads :
        /\ At(t, "sim_wait")
        /\ TStep(ifc, Goto(thr, t, "sim_top"), Emit({}))

\* MultiProtocolInterface.connect, up to the wait for the lock; the
\* simulation opens nothing and starts its thread at once.  The adapters of
\* the model are SLCAN adapters
ConnectCall ==
    /\ IsMulti
    /\ At(MainThread, "idle")
    /\ FreeSlots # {}
    /\ \E simulation \in BOOLEAN :
           IF simulation
           THEN TStep([ifc EXCEPT !.simulate = TRUE, !._running = TRUE,
                                  !.can_bitrate = DefaultBitrate,
                                  !._thread = {NewThread}],
                      [thr EXCEPT ![NewThread] = ThreadAt("sim_top")],
                      [ev |-> {"connection_changed(True)", "connect:True"},
                       stopped |-> FALSE])
           ELSE \E can_bitrate \in ConnectBitrates :
                    TStep([ifc EXCEPT !.simulate = FALSE, !.can_bitrate = can_bitrate],
                          Goto(thr, MainThread, "connect_lock"),
                          [ev |-> {}, stopped |-> FALSE])

\* serial.Serial(...) inside connect() opens the port or raises
ConnectOpened ==
    /\ At(MainThread, "connect_open")
    /\ \E ok \in BOOLEAN :
           IF ok
           THEN TStep([ifc EXCEPT !._lock = {}, !._serial = TRUE, !.written = <<>>],
                      Goto(thr, MainThread, "connect_init"), Emit({}))
           ELSE TStep([ifc EXCEPT !._lock = {}], Goto(thr, MainThread, "idle"),
                      Emit({"SerialException", "error_occurred", "connect:False"}))

\* _init_slcan: its next write, without the lock, returns or raises; after
\* the last one the input buffer is reset
ConnectInit ==
    /\ At(MainThread, "connect_init")
    /\ \E ok \in BOOLEAN :
           LET commands == _init_slcan(ifc.can_bitrate)
               n == Len(ifc.written) + 1
           IN IF ok
              THEN TStep([ifc EXCEPT !.written = Append(@, commands[n])],
                         Goto(thr, MainThread,
                              IF n = Len(commands) THEN "connect_start" ELSE "connect_init"),
                         Emit({}))
              ELSE TStep(ifc, Goto(thr, MainThread, "idle"),
                         Emit({"SerialException", "error_occurred", "connect:False"}))

\* the rest of connect(): _running.set(), the read loop's thread is started,
\* connection_changed is emitted
ConnectStart ==
    /\ At(MainThread, "connect_start")
    /\ TStep([ifc EXCEPT !._running = TRUE, !._thread = {NewThread}],
             [Goto(thr, MainThread, "idle") EXCEPT ![NewThread] = ThreadAt("top")],
             Emit({"connection_changed(True)", "connect:True"}))

\* MultiProtocolInterface.disconnect
DisconnectCall ==
    /\ IsMulti
    /\ At(MainThread, "idle")
    /\ StopBegins(MainThread)

\* disconnect(), under the lock with a handle open: the write of the close
\* command returns, or raises and ends the call with the handle left open
DisconnectWrite ==
    /\ At(MainThread, "disconnect_write")
    /\ \E ok \in BOOLEAN :
           IF ok
           THEN TStep([ifc EXCEPT !.written = Append(@, SLCANProtocol_close_channel)],
                      Goto(thr, MainThread, "stop_close"), Emit({}))
           ELSE TStep([ifc EXCEPT !._lock = {}], Goto(thr, MainThread, "idle"),
                      Emit({"SerialException"}))

\* MultiProtocolInterface._read_loop: the loop test
MultiLoopTop ==
    \E t \in LoopThreads :
        /\ IsMulti
        /\ At(t, "top")
        /\ IF ifc._running
           THEN TStep(ifc, Goto(thr, t, "read_lock"), Emit({}))
           ELSE TStep(ifc, Exit(thr, t), Emit({}))

\* in_waiting and read() under the lock return or raise; a raise is
\* reported while the interface is running, and the loop goes on
MultiRead ==
    \E t \in LoopThreads :
        /\ At(t, "read")
        /\ \E ok \in BOOLEAN :
               /\ ~ifc._serial => ok
               /\ TStep([ifc EXCEPT !._lock = _read_loop_lock_after_read(t)],
                        [thr EXCEPT ![t].pc = "pause", ![t].err = ~ok],
                        Emit(IF ~ok /\ ifc._running THEN {"error_occurred"}
                             ELSE IF ifc._serial /\ ok THEN {"frame_received"}
                             ELSE {}))

\* time.sleep(0.001), or time.sleep(0.1) after a raise, returns
MultiPause ==
    \E t \in LoopThreads :
        /\ At(t, "pause")
        /\ TStep(ifc, Goto(thr, t, "top"), Emit({}))

TransportInit ==
    /\ ifc \in {CANInterface__init__(simulate, attempts) :
                    simulate \in BOOLEAN, attempts \in ReconnectAttemptChoices}
               \cup {MultiProtocolInterface__init__}
    /\ tab = KeyToolsTab__init__
    /\ can = [running |-> FALSE, simulate |-> ifc.simulate, serial_open |-> FALSE]
    /\ out = [log |-> <<>>, tx |-> <<>>, src |-> "init"]
    /\ hist = [req |-> <<>>, bad_keys |-> 0, scn |-> "idle", seed_level |-> 0]
    /\ thr = NoLoopThreads
    /\ obs = NothingObserved
    /\ cdc = NoCall
    /\ rxs = NoStream
    /\ did = NotImported
    /\ cnt = NoCounter

TransportNext ==
    \/ Acquire
    \/ StartCall
    \/ StartOpened
    \/ StopCall
    \/ StopJoin
    \/ StopClose
    \/ SendCall
    \/ SendLock
    \/ SendWritten
    \/ SlcanWrite
    \/ SlcanWritten
    \/ Configure
    \/ LoopTop
    \/ LoopWake
    \/ Reopened
    \/ ReadDone
    \/ Closed
    \/ SimTick
    \/ SimWait
    \/ ConnectCall
    \/ ConnectOpened
    \/ ConnectInit
    \/ ConnectStart
    \/ DisconnectCall
    \/ DisconnectWrite
    \/ MultiLoopTop
    \/ MultiRead
    \/ MultiPause

TransportSpec == TransportInit /\ [][TransportNext]_vars

\* a thread that holds the lock is inside one call on the handle, which
\* returns or raises
LockHolderStep ==
    \/ StartOpened
    \/ StopClose
    \/ SendWritten
    \/ Reopened
    \/ Closed
    \/ ConnectOpened
    \/ DisconnectWrite
    \/ MultiRead

\* the lock is handed to a waiting sender: every holder leaves the lock before
\* its next blocking call, so a sender blocked in acquire() gets it
FairTransportSpec ==
    /\ TransportSpec
    /\ WF_vars(LockHolderStep)
    /\ SF_vars(SendLock)

----------------------------------------------------------------------------
(* Text and integers as Python computes them *)

UpperChars ==
    <<"A", "B", "C", "D", "E", "F", "G", "H", "I", "J", "K", "L", "M",
      "N", "O", "P", "Q", "R", "S", "T", "U", "V", "W", "X", "Y", "Z">>

LowerChars ==
    <<"a", "b", "c", "d", "e", "f", "g", "h", "i", "j", "k", "l", "m",
      "n", "o", "p", "q", "r", "s", "t", "u", "v", "w", "x", "y", "z">>

DigitChars == <<"0", "1", "2", "3", "4", "5", "6", "7", "8", "9">>

HexChars == DigitChars \o SubSeq(UpperChars, 1, 6)

Range(s) == {s[i] : i \in 1..Len(s)}

IndexOf(c, s) == CHOOSE i \in 1..Len(s) : s[i] = c

\* str.upper() of one character
UpperChar(c) == IF c \in Range(LowerChars) THEN UpperChars[IndexOf(c, LowerChars)] ELSE c

\* str.upper()
Upper(s) == [i \in 1..Len(s) |-> UpperChar(s[i])]

\* the class \d of re
DigitClass == Range(DigitChars)

\* the class [0-9A-Fa-f] of re, the digits int(_, 16) accepts
HexClass == Range(HexChars) \cup Range(SubSeq(LowerChars, 1, 6))

\* the characters str.strip() and str.split() take for white space
Whitespace == {" ", "\t", "\r", "\n"}

\* s[a:b] of Python, a and b counted from 0 and not negative
Slice(s, a, b) == SubSeq(s, a + 1, Min(b, Len(s)))

\* s[a:] of Python
SliceFrom(s, a) == SubSeq(s, a + 1, Len(s))

\* str.startswith
StartsWith(s, prefix) == Len(s) >= Len(prefix) /\ SubSeq(s, 1, Len(prefix)) = prefix

RECURSIVE LStrip(_, _)
\* str.lstrip(chars)
LStrip(s, chars) ==
    IF s # <<>> /\ Head(s) \in chars THEN LStrip(Tail(s), chars) ELSE s

RECURSIVE RStrip(_, _)
RStrip(s, chars) ==
    IF s # <<>> /\ Last(s) \in chars THEN RStrip(SubSeq(s, 1, Len(s) - 1), chars) ELSE s

\* str.strip()
Strip(s) == RStrip(LStrip(s, Whitespace), Whitespace)

\* str.replace(c, '') for each c of chars
Without(s, chars) == SelectSeq(s, LAMBDA c : c \notin chars)

\* str.find(c) counted from 0, len(s) when c does not occur
Find(s, c) ==
    IF c \in Range(s) THEN (CHOOSE i \in 1..Len(s) : s[i] = c /\ \A j \in 1..(i - 1) : s[j] # c) - 1
    ELSE Len(s)

RECURSIVE Split(_, _, _)
\* str.split(sep, maxsplit) with a one-character sep
Split(s, sep, maxsplit) ==
    IF maxsplit = 0 \/ sep \notin Range(s) THEN <<s>>
    ELSE <<Slice(s, 0, Find(s, sep))>> \o Split(SliceFrom(s, Find(s, sep) + 1), sep, maxsplit - 1)

RECURSIVE SplitWords(_)
\* str.split(): the runs of characters between white space
SplitWords(s) ==
    LET t == LStrip(s, Whitespace)
        n == Min(Min(Find(t, " "), Find(t, "\t")), Min(Find(t, "\r"), Find(t, "\n")))
    IN IF t = <<>> THEN <<>> ELSE <<Slice(t, 0, n)>> \o SplitWords(SliceFrom(t, n))

RECURSIVE Join(_, _)
\* sep.join(parts)
Join(parts, sep) ==
    IF parts = <<>> THEN <<>>
    ELSE IF Len(parts) = 1 THEN parts[1]
    ELSE parts[1] \o sep \o Join(Tail(parts), sep)

RECURSIVE Digits(_, _)
\* the digits of n >= 0 in the base, most significant first
Digits(n, base) ==
    IF n < base THEN <<HexChars[n + 1]>>
    ELSE Digits(n \div base, base) \o <<HexChars[(n % base) + 1]>>

RECURSIVE ZeroPad(_, _)
ZeroPad(s, width) == IF Len(s) >= width THEN s ELSE ZeroPad(<<"0">> \o s, width)

\* f'{n:0<width>X}': at least width upper-case hex digits
FormatX(n, width) == ZeroPad(Digits(n, 16), width)

\* f'{n}'
FormatD(n) == Digits(n, 10)

\* ''.join(f'{b:02X}' for b in data) and ','.join(...)
FormatBytes(data, sep) == Join([i \in 1..Len(data) |-> FormatX(data[i], 2)], sep)

\* int() raised ValueError
Invalid == [ok |-> FALSE, v |-> 0]

Valid(n) == [ok |-> TRUE, v |-> n]

RECURSIVE DigitsValue(_, _)
DigitsValue(s, base) ==
    IF s = <<>> THEN 0
    ELSE DigitsValue(SubSeq(s, 1, Len(s) - 1), base) * base
         + (IndexOf(UpperChar(Last(s)), HexChars) - 1)

\* int(s, base) for base 10 or 16: white space around the number, a sign and
\* (base 16) a 0x prefix are accepted; anything else raises ValueError
ParseInt(s, base) ==
    LET t == Strip(s)
        negative == t # <<>> /\ Head(t) = "-"
        u == IF t # <<>> /\ Head(t) \in {"+", "-"} THEN Tail(t) ELSE t
        d == IF base = 16 /\ Len(u) >= 2 /\ u[1] = "0" /\ u[2] \in {"x", "X"}
             THEN SliceFrom(u, 2) ELSE u
        good == d # <<>> /\ \A i \in 1..Len(d) : d[i] \in (IF base = 16 THEN HexClass ELSE DigitClass)
    IN IF ~good THEN Invalid
       ELSE Valid(IF negative THEN 0 - DigitsValue(d, base) ELSE DigitsValue(d, base))

\* [int(s[i:i+2], 16) for i in range(0, len(s), 2)], each element parsed
HexPairs(s) == [k \in 1..((Len(s) + 1) \div 2) |-> ParseInt(Slice(s, 2 * (k - 1), 2 * k), 16)]

AllValid(parsed) == \A i \in 1..Len(parsed) : parsed[i].ok

Values(parsed) == [i \in 1..Len(parsed) |-> parsed[i].v]

RECURSIVE Run(_, _, _)
\* length of the longest run of characters of the class at s[i:], i from 0
Run(s, i, class) ==
    IF i < Len(s) /\ s[i + 1] \in class THEN 1 + Run(s, i + 1, class) ELSE 0

RECURSIVE BitAnd(_, _)
\* a & b for a, b >= 0
BitAnd(a, b) ==
    IF a = 0 \/ b = 0 THEN 0
    ELSE (a % 2) * (b % 2) + 2 * BitAnd(a \div 2, b \div 2)

RECURSIVE BitOr(_, _)
\* a | b for a, b >= 0
BitOr(a, b) ==
    IF a = 0 /\ b = 0 THEN 0
    ELSE (IF a % 2 = 1 \/ b % 2 = 1 THEN 1 ELSE 0) + 2 * BitOr(a \div 2, b \div 2)

RECURSIVE BitXor(_, _)
\* a ^ b for a, b >= 0
BitXor(a, b) ==
    IF a = 0 /\ b = 0 THEN 0
    ELSE ((a + b) % 2) + 2 * BitXor(a \div 2, b \div 2)

\* a >> k and a << k
Shr(a, k) == a \div (2 ^ k)

Shl(a, k) == a * (2 ^ k)

\* ~a & mask for a >= 0: the bits of mask that a does not have
NotAnd(a, mask) == mask - BitAnd(a, mask)

----------------------------------------------------------------------------
(* Frames and line codecs *)

\* datetime.now().strftime("%H:%M:%S.%f")[:-3] at the time of the call
Now == <<"0", "9", ":", "1", "5", ":", "0", "0", ".", "1", "2", "3">>

\* dataclass CANFrame of the back ends: the id is text
BusFrame(timestamp, can_id, data, direction) ==
    [timestamp |-> timestamp, can_id |-> can_id, data |-> data, direction |-> direction]

\* dataclass LINFrame
LINFrame(timestamp, pid, data, direction, checksum) ==
    [timestamp |-> timestamp, pid |-> pid, data |-> data, direction |-> direction,
     checksum |-> checksum]

\* Optional[...]: no frame, or one
None == <<>>

Some(frame) == <<frame>>

\* the call did not return: ValueError left it
Raised == <<[raised |-> "ValueError"]>>

IsFrame(result) == result # None /\ result # Raised

\* faulty variant: the length is written in two hex digits
SLCANProtocol_build_frame_TwoDigitLength(can_id, data, extended) ==
    (IF extended THEN <<"T">> \o FormatX(can_id, 8) ELSE <<"t">> \o FormatX(can_id, 3))
    \o FormatX(Len(data), 2) \o FormatBytes(data, <<>>) \o <<"\r">>

\* SLCANProtocol.build_frame
SLCANProtocol_build_frame(can_id, data, extended) ==
    LET dlc == Len(data)
        data_hex == FormatBytes(data, <<>>)
    IN IF extended
       THEN <<"T">> \o FormatX(can_id, 8) \o FormatD(dlc) \o data_hex \o <<"\r">>
       ELSE <<"t">> \o FormatX(can_id, 3) \o FormatD(dlc) \o data_hex \o <<"\r">>

\* the try block of either branch of SLCANProtocol.parse_frame: the id is
\* line[1:id_end], the length digit follows it
SLCANProtocol_parse_fields(line, id_end) ==
    LET can_id == Slice(line, 1, id_end)
        dlc == ParseInt(<<line[id_end + 1]>>, 16)
        data_hex == Slice(line, id_end + 1, id_end + 1 + dlc.v * 2)
        data == HexPairs(data_hex)
    IN IF ~dlc.ok \/ ~AllValid(data) THEN None
       ELSE Some(BusFrame(Now, can_id, Values(data), "RX"))

\* SLCANProtocol.parse_frame
SLCANProtocol_parse_frame(raw) ==
    LET line == Strip(raw) IN
    IF line = <<>> THEN None
    ELSE IF StartsWith(line, <<"t">>) /\ Len(line) >= 5 THEN SLCANProtocol_parse_fields(line, 4)
    ELSE IF StartsWith(line, <<"T">>) /\ Len(line) >= 10 THEN SLCANProtocol_parse_fields(line, 9)
    ELSE None

\* MCP2515Protocol.parse_frame, format 1:
\* re.match(r'ID:([0-9A-Fa-f]+),LEN:(\d+),DATA:([\dA-Fa-f,\s]+)', line)
MCP2515Protocol_format1(line) ==
    LET n1 == Run(line, 3, HexClass)
        len_at == 3 + n1
        n2 == Run(line, len_at + 5, DigitClass)
        data_at == len_at + 5 + n2
        n3 == Run(line, data_at + 6, HexClass \cup {","} \cup Whitespace)
    IN IF /\ StartsWith(line, <<"I", "D", ":">>) /\ n1 >= 1
          /\ Slice(line, len_at, len_at + 5) = <<",", "L", "E", "N", ":">> /\ n2 >= 1
          /\ Slice(line, data_at, data_at + 6) = <<",", "D", "A", "T", "A", ":">> /\ n3 >= 1
       THEN <<[can_id |-> Upper(Slice(line, 3, 3 + n1)),
               data_str |-> Without(Slice(line, data_at + 6, data_at + 6 + n3), {" ", ","})]>>
       ELSE <<>>

\* MCP2515Protocol.parse_frame, format 2: re.match(r'([0-9A-Fa-f]+)#([\dA-Fa-f.]+)', line)
MCP2515Protocol_format2(line) ==
    LET n1 == Run(line, 0, HexClass)
        n2 == Run(line, n1 + 1, HexClass \cup {"."})
    IN IF n1 >= 1 /\ Slice(line, n1, n1 + 1) = <<"#">> /\ n2 >= 1
       THEN <<[can_id |-> Upper(Slice(line, 0, n1)),
               data_str |-> Without(Slice(line, n1 + 1, n1 + 1 + n2), {"."})]>>
       ELSE <<>>

\* MCP2515Protocol.parse_frame, format 3: id, then a one-character length and
\* that many bytes, or bytes only; ValueError is swallowed
MCP2515Protocol_format3(line) ==
    LET parts == SplitWords(line)
        dlc == ParseInt(parts[2], 10)
        data == IF Len(parts[2]) = 1
                THEN [i \in 1..Len(Slice(parts, 2, 2 + dlc.v)) |->
                          ParseInt(Slice(parts, 2, 2 + dlc.v)[i], 16)]
                ELSE [i \in 1..(Len(parts) - 1) |-> ParseInt(parts[i + 1], 16)]
    IN IF Len(parts) < 3 THEN None
       ELSE IF Len(parts[2]) = 1 /\ ~dlc.ok THEN None
       ELSE IF ~AllValid(data) THEN None
       ELSE Some(BusFrame(Now, Upper(parts[1]), Values(data), "RX"))

\* MCP2515Protocol.parse_frame: the first format that matches wins.  The hex
\* pairs of formats 1 and 2 are parsed outside any try block: a pair int()
\* rejects makes parse_frame raise
MCP2515Protocol_parse_frame(raw) ==
    LET line == Strip(raw)
        m1 == MCP2515Protocol_format1(line)
        m2 == MCP2515Protocol_format2(line)
        m == IF m1 # <<>> THEN m1[1] ELSE m2[1]
    IN IF line = <<>> THEN None
       ELSE IF m1 # <<>> \/ m2 # <<>>
       THEN IF AllValid(HexPairs(m.data_str))
            THEN Some(BusFrame(Now, m.can_id, Values(HexPairs(m.data_str)), "RX"))
            ELSE Raised
       ELSE MCP2515Protocol_format3(line)

\* MCP2515Protocol.build_frame
MCP2515Protocol_build_frame(can_id, data) ==
    <<"S", "E", "N", "D", ":">> \o FormatX(can_id, 3) \o <<",">> \o FormatD(Len(data))
    \o <<",">> \o FormatBytes(data, <<",">>) \o <<"\r", "\n">>

\* faulty variant: the second parity bit is not inverted
LINProtocol_calculate_pid_P1NotInverted(frame_id) ==
    LET id_bits == BitAnd(frame_id, 63)
        p0 == BitAnd(BitXor(BitXor(BitXor(id_bits, Shr(id_bits, 1)), Shr(id_bits, 2)),
                            Shr(id_bits, 4)), 1)
        p1 == BitAnd(BitXor(BitXor(BitXor(Shr(id_bits, 1), Shr(id_bits, 3)), Shr(id_bits, 4)),
                            Shr(id_bits, 5)), 1)
    IN BitOr(BitOr(id_bits, Shl(p0, 6)), Shl(p1, 7))

\* LINProtocol.calculate_pid
LINProtocol_calculate_pid(frame_id) ==
    LET id_bits == BitAnd(frame_id, 63)
        p0 == BitAnd(BitXor(BitXor(BitXor(id_bits, Shr(id_bits, 1)), Shr(id_bits, 2)),
                            Shr(id_bits, 4)), 1)
        p1 == NotAnd(BitXor(BitXor(BitXor(Shr(id_bits, 1), Shr(id_bits, 3)), Shr(id_bits, 4)),
                            Shr(id_bits, 5)), 1)
    IN BitOr(BitOr(id_bits, Shl(p0, 6)), Shl(p1, 7))

RECURSIVE LINProtocol_checksum_loop(_, _)
\* the for loop of calculate_checksum
LINProtocol_checksum_loop(checksum, data) ==
    IF data = <<>> THEN checksum
    ELSE LINProtocol_checksum_loop(IF checksum + Head(data) > 255
                                   THEN checksum + Head(data) - 255
                                   ELSE checksum + Head(data),
                                   Tail(data))

RECURSIVE SumOf(_)
SumOf(data) == IF data = <<>> THEN 0 ELSE Head(data) + SumOf(Tail(data))

\* faulty variant: the sum is reduced modulo 256, the carry is dropped
LINProtocol_calculate_checksum_Mod256(pid, data, enhanced) ==
    NotAnd(((IF enhanced THEN pid ELSE 0) + SumOf(data)) % 256, 255)

\* LINProtocol.calculate_checksum
LINProtocol_calculate_checksum(pid, data, enhanced) ==
    NotAnd(LINProtocol_checksum_loop(IF enhanced THEN pid ELSE 0, data), 255)

\* LINProtocol.parse_frame, format 1:
\* re.match(r'PID:([0-9A-Fa-f]+),DATA:([\dA-Fa-f,]+),CKS:([0-9A-Fa-f]+)', line).
\* The class of the data group holds ',' and 'C': the group is the longest
\* part of its run that ',CKS:' and a hex digit follow
LINProtocol_format1(line) ==
    LET n1 == Run(line, 4, HexClass)
        data_at == 4 + n1 + 6
        run == Run(line, data_at, HexClass \cup {","})
        Follows(m) ==
            /\ Slice(line, data_at + m, data_at + m + 5) = <<",", "C", "K", "S", ":">>
            /\ Run(line, data_at + m + 5, HexClass) >= 1
        fits == {m \in 1..run : Follows(m)}
        n2 == CHOOSE n \in fits : \A k \in fits : k <= n
        n3 == Run(line, data_at + n2 + 5, HexClass)
    IN IF /\ StartsWith(line, <<"P", "I", "D", ":">>) /\ n1 >= 1
          /\ Slice(line, 4 + n1, data_at) = <<",", "D", "A", "T", "A", ":">>
          /\ fits # {}
       THEN <<[pid |-> Slice(line, 4, 4 + n1),
               data_str |-> Without(Slice(line, data_at, data_at + n2), {","}),
               checksum |-> Slice(line, data_at + n2 + 5, data_at + n2 + 5 + n3)]>>
       ELSE <<>>

\* LINProtocol.parse_frame, format 2: LIN, then pid, data bytes and checksum
LINProtocol_format2(line) ==
    LET parts == Tail(SplitWords(line))
        pid == ParseInt(parts[1], 16)
        data == [i \in 1..(Len(parts) - 2) |-> ParseInt(parts[i + 1], 16)]
        checksum == ParseInt(Last(parts), 16)
    IN IF Len(parts) < 2 THEN None
       ELSE IF ~pid.ok \/ ~AllValid(data) \/ ~checksum.ok THEN None
       ELSE Some(LINFrame(Now, pid.v, Values(data), "RX", checksum.v))

\* LINProtocol.parse_frame
LINProtocol_parse_frame(raw) ==
    LET line == Strip(raw)
        m == LINProtocol_format1(line)
    IN IF line = <<>> THEN None
       ELSE IF m # <<>>
       THEN Some(LINFrame(Now, ParseInt(m[1].pid, 16).v, Values(HexPairs(m[1].data_str)),
                          "RX", ParseInt(m[1].checksum, 16).v))
       ELSE IF StartsWith(Upper(line), <<"L", "I", "N">>) THEN LINProtocol_format2(line)
       ELSE None

\* MultiProtocolInterface.send_lin_frame: the command written to the handle
\* (interface_type is LIN)
send_lin_frame(pid, data) ==
    <<"L", "I", "N", ":">> \o FormatX(pid, 2) \o <<",">> \o FormatBytes(data, <<",">>)
    \o <<",">> \o FormatX(LINProtocol_calculate_checksum(pid, data, TRUE), 2) \o <<"\r", "\n">>

\* Direction(text): the member with that value; any other text raises
\* ValueError
Direction(text) ==
    IF text = <<"R", "X">> THEN <<"RX">>
    ELSE IF text = <<"T", "X">> THEN <<"TX">>
    ELSE <<>>

\* Direction.value
DirectionValue(direction) == IF direction = "RX" THEN <<"R", "X">> ELSE <<"T", "X">>

\* CANInterface._default_frame_parser: any exception is swallowed
_default_frame_parser(line) ==
    LET parts == Split(line, ",", 3)
        timestamp == parts[1]
        can_id == Upper(Strip(parts[2]))
        data_hex == parts[3]
        direction_str == parts[4]
        can_id_int == ParseInt(can_id, 16)
        data_length == Len(data_hex)
        data == HexPairs(data_hex)
    IN IF Len(parts) # 4 THEN None
       ELSE IF ~can_id_int.ok THEN None
       ELSE IF ~(0 <= can_id_int.v /\ can_id_int.v <= 2047) THEN None
       ELSE IF data_length % 2 # 0 \/ data_length > max_data_bytes * 2 THEN None
       ELSE IF ~AllValid(data) THEN None
       ELSE IF Direction(direction_str) = <<>> THEN None
       ELSE Some(BusFrame(timestamp, can_id, Values(data), Direction(direction_str)[1]))

\* faulty variant: the data bytes are written with commas between them
send_frame_line_CommaSeparated(frame) ==
    frame.timestamp \o <<",">> \o frame.can_id \o <<",">> \o FormatBytes(frame.data, <<",">>)
    \o <<",">> \o DirectionValue(frame.direction) \o <<"\n">>

\* CANInterface.send_frame on an open handle: the line written to the stream
send_frame_line(frame) ==
    frame.timestamp \o <<",">> \o frame.can_id \o <<",">> \o FormatBytes(frame.data, <<>>)
    \o <<",">> \o DirectionValue(frame.direction) \o <<"\n">>

\* CANInterface._serial_read_loop: readline().decode().strip()
readline_text(raw) == Strip(raw)

----------------------------------------------------------------------------
(* Codecs: inputs of the model *)

\* ids a caller sends with: 11-bit ids, and 29-bit ids of extended frames
StandardIds == {\h000, \h001, \h123, \h7DF, \h7E0, \h7FF}

ExtendedIds == {\h00000000, \h000007FF, \h18DAF110, \h1FFFFFFF}

\* payloads of 0 to max_data_bytes bytes: n bytes that start after b and go
\* up in steps of c
DataSequences ==
    {[i \in 1..n |-> (b + i * c) % 256] :
        n \in 0..max_data_bytes, b \in {\h00, \h0F, \hFF}, c \in {\h00, \h11}}

\* payloads a caller can pass: those, and one byte more than the maximum
CallerData == DataSequences \cup {[i \in 1..(max_data_bytes + 1) |-> i]}

\* service ids of simulate_uds_frame and of _simulation_loop
ServiceIds == {\h22, \h27, \h3E}

Directions == {"RX", "TX"}

\* protected ids: 0xC1 and 0x42 carry the parity of ids 1 and 2; 0x41, 0xFF
\* and 0x1FF do not
ProtectedIds == {\h00, \h01, \h41, \h42, \hC1, \hFF}

\* characters at the place of the length digit of an SLCAN line
LengthChars == {"0", "1", "2", "8", "9", "F", "G"}

\* hex text after the length digit: whole payloads and payloads cut short
HexTexts ==
    {Slice(FormatBytes(data, <<>>), 0, k) :
        data \in {[i \in 1..9 |-> i * 17], <<\hAB, \hCD>>}, k \in 0..18}

\* lines an SLCAN adapter can deliver, well formed or not
SlcanLines ==
    {<<"t", "7", "D", "F">> \o <<l>> \o h : l \in LengthChars, h \in HexTexts}
    \cup {<<"T", "1", "8", "D", "A", "F", "1", "1", "0">> \o <<l>> \o h :
              l \in {"2", "9"}, h \in HexTexts}
    \cup {<<"t", "7", "D", "F">>, <<"z">>, <<"\r">>}

\* lines an MCP2515 sketch can deliver, well formed or not
Mcp2515Lines ==
    {<<"I", "D", ":", "7", "D", "F", ",", "L", "E", "N", ":", "2", ",", "D", "A", "T", "A", ":", "0", "1", ",", "0", "2">>,
     <<"I", "D", ":", "7", "d", "f", ",", "L", "E", "N", ":", "2", ",", "D", "A", "T", "A", ":", "0", "1", " ", "0", "2">>,
     <<"I", "D", ":", "7", "D", "F", ",", "L", "E", "N", ":", "9", ",", "D", "A", "T", "A", ":", "0", "1", ",", "0", "2", ",", "0", "3", ",", "0", "4", ",", "0", "5", ",", "0", "6", ",", "0", "7", ",", "0", "8", ",", "0", "9">>,
     <<"I", "D", ":", "7", "D", "F", ",", "L", "E", "N", ":", "2", ",", "D", "A", "T", "A", ":", "0", "\t", "\t", "1">>,
     <<"7", "D", "F", "#", "0", "1", ".", "0", "2">>,
     <<"7", "E", "8", "#", "0", "1", "0", "2", "0", "3", "0", "4", "0", "5", "0", "6", "0", "7", "0", "8">>,
     <<"7", "E", "8", "#", "0", "1", "0", "2", "0", "3", "0", "4", "0", "5", "0", "6", "0", "7", "0", "8", "0", "9">>,
     <<"7", "D", "F", " ", "2", " ", "0", "1", " ", "0", "2">>,
     <<"7", "D", "F", " ", "0", "1", " ", "0", "2", " ", "0", "3">>,
     <<"7", "D", "F", " ", "2", " ", "0", "1", " ", "0", "2", " ", "0", "3">>,
     <<"7", "D", "F", " ", "A", " ", "0", "1", " ", "0", "2">>,
     <<"7", "D", "F", " ", "0", "1", " ", "0", "2", " ", "0", "3", " ", "0", "4", " ", "0", "5", " ", "0", "6", " ", "0", "7", " ", "0", "8", " ", "0", "9">>,
     <<"S", "E", "N", "D", ":", "7", "D", "F", ",", "2", ",", "0", "1", ",", "0", "2">>,
     <<"h", "e", "l", "l", "o">>,
     <<"7", "D", "F", " ", "2", " ", "0", "G", " ", "0", "2">>}

\* lines a LIN adapter can deliver, well formed or not
LinLines ==
    {<<"P", "I", "D", ":", "C", "1", ",", "D", "A", "T", "A", ":", "0", "0", ",", "C", "K", "S", ":", "3", "D">>,
     <<"P", "I", "D", ":", "4", "2", ",", "D", "A", "T", "A", ":", "0", "1", ",", "0", "2", ",", "C", "K", "S", ":", "B", "9">>,
     <<"P", "I", "D", ":", "F", "F", ",", "D", "A", "T", "A", ":", "0", "0", ",", "C", "K", "S", ":", "0", "0">>,
     <<"P", "I", "D", ":", "4", "1", ",", "D", "A", "T", "A", ":", "0", "0", ",", "C", "K", "S", ":", "B", "E">>,
     <<"P", "I", "D", ":", "1", "F", "F", ",", "D", "A", "T", "A", ":", "0", "1", ",", "C", "K", "S", ":", "0", "0">>,
     <<"P", "I", "D", ":", "C", "1", ",", "D", "A", "T", "A", ":", "0", "1", ",", "0", "2", ",", "0", "3", ",", "0", "4", ",", "0", "5", ",", "0", "6", ",", "0", "7", ",", "0", "8", ",", "0", "9", ",", "C", "K", "S", ":", "0", "0">>,
     <<"L", "I", "N", " ", "C", "1", " ", "0", "0", " ", "3", "D">>,
     <<"L", "I", "N", " ", "4", "1", " ", "0", "0", " ", "B", "E">>,
     <<"l", "i", "n", " ", "1", "F", "F", " ", "0", "1", " ", "0", "0">>,
     <<"L", "I", "N", " ", "C", "1">>,
     <<"L", "I", "N", " ", "z", "z", " ", "0", "0", " ", "0", "0">>,
     <<"h", "e", "l", "l", "o">>}

\* MultiProtocolInterface.interface_type of a serial connection
InterfaceTypes == {"SLCAN", "MCP2515", "LIN"}

LinesOf(interface_type) ==
    IF interface_type = "SLCAN" THEN SlcanLines
    ELSE IF interface_type = "MCP2515" THEN Mcp2515Lines
    ELSE LinLines

----------------------------------------------------------------------------
(* Codecs: the publishing paths *)

\* CANInterface.simulate_uds_frame: the frames it emits
simulate_uds_frame(simulate, running, can_id, sid, data, direction) ==
    IF ~simulate \/ ~running THEN <<>>
    ELSE <<BusFrame(Now, FormatX(can_id, 3), <<sid>> \o data, direction)>>

\* CANInterface._simulate_frames, one round: random.randint(1, max_data_bytes)
\* bytes; length and bytes are the arguments
_simulate_frames(can_id, length, data, direction) ==
    IF length \in 1..max_data_bytes /\ Len(data) >= length
    THEN <<BusFrame(Now, FormatX(can_id, 3), SubSeq(data, 1, length), direction)>>
    ELSE <<>>

\* CANInterface.send_frame of a simulated interface: the frames it emits
send_frame_echo(running, frame) ==
    IF ~running THEN <<>>
    ELSE IF Len(frame.data) > max_data_bytes THEN <<>>
    ELSE <<frame>>

\* MultiProtocolInterface.send_frame with interface_type SIMULATION
MultiProtocolInterface_send_frame_echo(running, can_id, data) ==
    IF ~running THEN <<>>
    ELSE <<BusFrame(Now, FormatX(can_id, 3), data, "TX")>>

\* MultiProtocolInterface._simulation_loop, one round: a service id and
\* random.randint(1, 7) bytes
_simulation_loop(can_id, service, length, data, direction) ==
    IF length \in 1..7 /\ Len(data) >= length
    THEN <<BusFrame(Now, FormatX(can_id, 3), <<service>> \o SubSeq(data, 1, length), direction)>>
    ELSE <<>>

\* MultiProtocolInterface._process_line: what the codec of the interface type
\* returns
_process_line_frame(interface_type, line) ==
    IF interface_type = "SLCAN" THEN SLCANProtocol_parse_frame(line)
    ELSE IF interface_type = "MCP2515" THEN MCP2515Protocol_parse_frame(line)
    ELSE IF interface_type = "LIN" THEN LINProtocol_parse_frame(line)
    ELSE None

\* MultiProtocolInterface._process_line: the frames it emits
_process_line(interface_type, line) ==
    IF IsFrame(_process_line_frame(interface_type, line))
    THEN _process_line_frame(interface_type, line)
    ELSE <<>>

----------------------------------------------------------------------------
(* Codecs: state machine *)

\* a call about to be made, and the call once it has returned
Call(fn, args) ==
    [op |-> "call", fn |-> fn, args |-> args, line |-> <<>>, result |-> <<>>,
     published |-> <<>>]

Return(line, result, published) ==
    [cdc EXCEPT !.op = "return", !.line = line, !.result = result, !.published = published]

Calling(fn) == cdc.op = "call" /\ cdc.fn = fn

Returned(fn) == cdc.op = "return" /\ cdc.fn = fn

CStep(c2) ==
    /\ cdc' = c2
    /\ UNCHANGED <<evars, tvars, rxs, did, cnt>>

\* SLCANProtocol.build_frame, then SLCANProtocol.parse_frame on its line
SlcanRoundTrip ==
    /\ Calling("SLCANProtocol.build_frame")
    /\ LET line == SLCANProtocol_build_frame(cdc.args.can_id, cdc.args.data, cdc.args.extended)
       IN CStep(Return(line, SLCANProtocol_parse_frame(line), <<>>))

\* MCP2515Protocol.build_frame, then MCP2515Protocol.parse_frame on its line
Mcp2515RoundTrip ==
    /\ Calling("MCP2515Protocol.build_frame")
    /\ LET line == MCP2515Protocol_build_frame(cdc.args.can_id, cdc.args.data)
       IN CStep(Return(line, MCP2515Protocol_parse_frame(line), <<>>))

\* CANInterface.send_frame writes a line; the read loop of the receiver reads
\* it, strips it and parses it
CsvRoundTrip ==
    /\ Calling("CANInterface.send_frame")
    /\ LET line == send_frame_line(cdc.args.frame)
       IN CStep(Return(line, _default_frame_parser(readline_text(line)), <<>>))

ProcessLine ==
    /\ Calling("_process_line")
    /\ CStep(Return(cdc.args.line,
                    _process_line_frame(cdc.args.interface_type, cdc.args.line),
                    _process_line(cdc.args.interface_type, cdc.args.line)))

SendLinFrame ==
    /\ Calling("send_lin_frame")
    /\ CStep(Return(send_lin_frame(cdc.args.pid, cdc.args.data), <<>>, <<>>))

CalculateChecksum ==
    /\ Calling("LINProtocol.calculate_checksum")
    /\ CStep(Return(<<>>,
                    <<LINProtocol_calculate_checksum(cdc.args.pid, cdc.args.data,
                                                     cdc.args.enhanced)>>,
                    <<>>))

CalculatePid ==
    /\ Calling("LINProtocol.calculate_pid")
    /\ CStep(Return(<<>>, <<LINProtocol_calculate_pid(cdc.args.frame_id)>>, <<>>))

SimulateUdsFrame ==
    /\ Calling("simulate_uds_frame")
    /\ CStep(Return(<<>>, <<>>,
                    simulate_uds_frame(cdc.args.simulate, cdc.args.running, cdc.args.can_id,
                                       cdc.args.sid, cdc.args.data, cdc.args.direction)))

SimulateFrames ==
    /\ Calling("_simulate_frames")
    /\ CStep(Return(<<>>, <<>>,
                    _simulate_frames(cdc.args.can_id, cdc.args.length, cdc.args.data,
                                     cdc.args.direction)))

SendFrameEcho ==
    /\ Calling("send_frame")
    /\ CStep(Return(<<>>, <<>>, send_frame_echo(cdc.args.running, cdc.args.frame)))

MultiSendFrameEcho ==
    /\ Calling("MultiProtocolInterface.send_frame")
    /\ CStep(Return(<<>>, <<>>,
                    MultiProtocolInterface_send_frame_echo(cdc.args.running, cdc.args.can_id,
                                                           cdc.args.data)))

SimulationLoop ==
    /\ Calling("_simulation_loop")
    /\ CStep(Return(<<>>, <<>>,
                    _simulation_loop(cdc.args.can_id, cdc.args.service, cdc.args.length,
                                     cdc.args.data, cdc.args.direction)))

\* the calls the model makes, one per initial state
CodecCalls ==
    \/ cdc \in {Call("SLCANProtocol.build_frame",
                     [can_id |-> can_id, data |-> data, extended |-> FALSE]) :
                    can_id \in StandardIds, data \in DataSequences}
    \/ cdc \in {Call("SLCANProtocol.build_frame",
                     [can_id |-> can_id, data |-> data, extended |-> TRUE]) :
                    can_id \in ExtendedIds, data \in DataSequences}
    \/ cdc \in {Call("MCP2515Protocol.build_frame", [can_id |-> can_id, data |-> data]) :
                    can_id \in StandardIds, data \in DataSequences}
    \/ cdc \in {Call("CANInterface.send_frame",
                     [frame |-> BusFrame(timestamp, FormatX(can_id, 3), data, direction)]) :
                    timestamp \in {Now}, can_id \in StandardIds, data \in DataSequences,
                    direction \in Directions}
    \/ cdc \in {Call("_process_line", [interface_type |-> interface_type, line |-> line]) :
                    interface_type \in {"SLCAN"}, line \in SlcanLines}
    \/ cdc \in {Call("_process_line", [interface_type |-> interface_type, line |-> line]) :
                    interface_type \in {"MCP2515"}, line \in Mcp2515Lines}
    \/ cdc \in {Call("_process_line", [interface_type |-> interface_type, line |-> line]) :
                    interface_type \in {"LIN"}, line \in LinLines}
    \/ cdc \in {Call("send_lin_frame", [pid |-> pid, data |-> data]) :
                    pid \in ProtectedIds, data \in DataSequences \ {<<>>}}
    \/ cdc \in {Call("LINProtocol.calculate_checksum",
                     [pid |-> pid, data |-> data, enhanced |-> enhanced]) :
                    pid \in ProtectedIds, data \in DataSequences \ {<<>>},
                    enhanced \in BOOLEAN}
    \/ cdc \in {Call("LINProtocol.calculate_pid", [frame_id |-> frame_id]) :
                    frame_id \in 0..63}
    \/ cdc \in {Call("simulate_uds_frame",
                     [simulate |-> simulate, running |-> running, can_id |-> can_id,
                      sid |-> sid, data |-> data, direction |-> "RX"]) :
                    simulate \in BOOLEAN, running \in BOOLEAN, can_id \in {\h7E8},
                    sid \in ServiceIds, data \in CallerData}
    \/ cdc \in {Call("_simulate_frames",
                     [can_id |-> can_id, length |-> Len(data), data |-> data,
                      direction |-> direction]) :
                    can_id \in {\h100, \h7FF}, data \in DataSequences \ {<<>>},
                    direction \in Directions}
    \/ cdc \in {Call("send_frame",
                     [running |-> running,
                      frame |-> BusFrame(Now, FormatX(can_id, 3), data, "TX")]) :
                    running \in BOOLEAN, can_id \in {\h7E0}, data \in CallerData}
    \/ cdc \in {Call("MultiProtocolInterface.send_frame",
                     [running |-> running, can_id |-> can_id, data |-> data]) :
                    running \in BOOLEAN, can_id \in {\h7E0}, data \in CallerData}
    \/ cdc \in {Call("_simulation_loop",
                     [can_id |-> can_id, service |-> service, length |-> Len(data),
                      data |-> data, direction |-> direction]) :
                    can_id \in {\h7E8}, service \in ServiceIds,
                    data \in {d \in DataSequences : Len(d) \in 1..7},
                    direction \in Directions}

CodecInit ==
    /\ CodecCalls
    /\ tab = KeyToolsTab__init__
    /\ can = [running |-> FALSE, simulate |-> TRUE, serial_open |-> FALSE]
    /\ out = [log |-> <<>>, tx |-> <<>>, src |-> "init"]
    /\ hist = [req |-> <<>>, bad_keys |-> 0, scn |-> "idle", seed_level |-> 0]
    /\ ifc = MultiProtocolInterface__init__
    /\ thr = NoLoopThreads
    /\ obs = NothingObserved
    /\ rxs = NoStream
    /\ did = NotImported
    /\ cnt = NoCounter

CodecNext ==
    \/ SlcanRoundTrip
    \/ Mcp2515RoundTrip
    \/ CsvRoundTrip
    \/ ProcessLine
    \/ SendLinFrame
    \/ CalculateChecksum
    \/ CalculatePid
    \/ SimulateUdsFrame
    \/ SimulateFrames
    \/ SendFrameEcho
    \/ MultiSendFrameEcho
    \/ SimulationLoop

CodecSpec == CodecInit /\ [][CodecNext]_vars

----------------------------------------------------------------------------
(* Receiving: the byte stream and the read loops *)

\* a byte that is not valid UTF-8
InvalidByte == "\\xFF"

\* bytes.decode(): UnicodeDecodeError when a byte is not valid UTF-8
Decodable(raw) == InvalidByte \notin Range(raw)

\* bytes.decode('utf-8', errors='ignore'): invalid bytes are dropped
decode_ignore(raw) == Without(raw, {InvalidByte})

\* lines a CSV adapter sends, with their terminator: two well formed, then a wrong
\* field count, bad hex, an id out of range and bytes that are not text
CsvLines ==
    {<<"1", ",", "7", "D", "F", ",", "0", "1", "0", "2", ",", "R", "X", "\n">>,
     <<"2", ",", "7", "E", "8", ",", "0", "A", ",", "T", "X", "\n">>,
     <<"3", ",", "7", "D", "F", ",", "0", "1", "\n">>,
     <<"4", ",", "7", "D", "F", ",", "0", "G", ",", "R", "X", "\n">>,
     <<"5", ",", "8", "0", "0", ",", "0", "1", ",", "R", "X", "\n">>,
     <<"6", ",", "7", "D", "F", ",", InvalidByte, "1", ",", "R", "X", "\n">>}

\* lines an SLCAN adapter sends, with their terminator: two well formed, then
\* an unknown command, a bad length digit and bytes that are not text
SlcanStreamLines ==
    {<<"t", "7", "D", "F", "2", "0", "1", "0", "2", "\r">>,
     <<"t", "7", "E", "8", "1", "0", "A", "\r">>,
     <<"z", "1", "2", "\r">>,
     <<"t", "7", "D", "F", "G", "0", "1", "\r">>,
     <<"t", "7", "D", "F", "1", InvalidByte, "0", "A", "\r">>}

\* what the sender puts on the wire: one line, or two in a row
StreamsOf(sent) == sent \cup {a \o b : a \in sent, b \in sent}

\* a receiving interface at the start of its read loop: connected, running,
\* nothing received yet
Receiving(kind, interface_type, wire) ==
    [kind |-> kind,
     interface_type |-> interface_type,
     wire |-> wire,
     in_waiting |-> <<>>,
     buffer |-> <<>>,
     _serial |-> TRUE,
     _running |-> TRUE,
     lost |-> FALSE,
     read |-> <<>>,
     frames |-> <<>>]

\* the terminators the read loop of the interface cuts lines at
Terminators(r) == IF r.kind = "CANInterface" THEN {"\n"} ELSE {"\r", "\n"}

HasTerminator(text, terms) == \E i \in 1..Len(text) : text[i] \in terms

\* index from 0 of the first terminator of the text
FirstTerminator(text, terms) ==
    (CHOOSE i \in 1..Len(text) : text[i] \in terms /\ \A j \in 1..(i - 1) : text[j] \notin terms) - 1

\* io.RawIOBase.readline on a handle opened with timeout=1: the bytes up to
\* and with the first '\\n'; when none has come before the timeout, the bytes
\* that have
readline(in_waiting) ==
    IF HasTerminator(in_waiting, {"\n"})
    THEN Slice(in_waiting, 0, FirstTerminator(in_waiting, {"\n"}) + 1)
    ELSE in_waiting

\* _serial_read_loop, the try block on the bytes readline() returned:
\* UnicodeDecodeError closes the handle, a line the parser takes is published
_serial_read_loop_body(r, raw) ==
    LET line == readline_text(raw)
        taken == [r EXCEPT !.in_waiting = SliceFrom(@, Len(raw)), !.read = @ \o raw]
    IN IF ~Decodable(raw) THEN [taken EXCEPT !._serial = FALSE]
       ELSE IF line = <<>> THEN taken
       ELSE [taken EXCEPT !.frames = @ \o _default_frame_parser(line)]

RECURSIVE _read_loop_lines(_, _, _)
\* _read_loop, the while loop over the complete lines of the buffer; a codec
\* that raises ends it with the rest of the buffer kept
_read_loop_lines(interface_type, buffer, frames) ==
    IF ~HasTerminator(buffer, {"\r", "\n"}) THEN [buffer |-> buffer, frames |-> frames]
    ELSE LET idx == Min(Find(buffer, "\r"), Find(buffer, "\n"))
             line == Strip(Slice(buffer, 0, idx))
             rest == LStrip(SliceFrom(buffer, idx + 1), {"\r", "\n"})
         IN IF line = <<>> THEN _read_loop_lines(interface_type, rest, frames)
            ELSE IF _process_line_frame(interface_type, line) = Raised
            THEN [buffer |-> rest, frames |-> frames]
            ELSE _read_loop_lines(interface_type, rest,
                                  frames \o _process_line(interface_type, line))

\* _read_loop, one round: read(in_waiting) under the lock, decode, then the
\* complete lines
_read_loop_body(r) ==
    LET data == r.in_waiting
        done == _read_loop_lines(r.interface_type, r.buffer \o decode_ignore(data), r.frames)
    IN [r EXCEPT !.in_waiting = <<>>, !.read = @ \o data,
                 !.buffer = done.buffer, !.frames = done.frames]

----------------------------------------------------------------------------
(* Receiving: state machine *)

RStep(r2) ==
    /\ rxs' = r2
    /\ UNCHANGED <<evars, tvars, cdc, did, cnt>>

\* the next bytes of the sender reach the port
StreamArrive ==
    /\ rxs.kind # "none"
    /\ \E k \in 1..Len(rxs.wire) :
           RStep([rxs EXCEPT !.wire = SliceFrom(@, k),
                             !.in_waiting = @ \o Slice(rxs.wire, 0, k)])

\* CANInterface._serial_read_loop with the handle open: readline() returns
\* bytes (an empty return changes nothing)
StreamReadLine ==
    /\ rxs.kind = "CANInterface"
    /\ rxs._running /\ rxs._serial
    /\ rxs.in_waiting # <<>>
    /\ RStep(_serial_read_loop_body(rxs, readline(rxs.in_waiting)))

\* CANInterface._serial_read_loop with the handle closed and auto_reconnect
\* off: connection_lost, stop()
StreamGiveUp ==
    /\ rxs.kind = "CANInterface"
    /\ rxs._running /\ ~rxs._serial
    /\ RStep([rxs EXCEPT !._running = FALSE, !.lost = TRUE])

\* MultiProtocolInterface._read_loop, a round that finds bytes waiting
StreamRead ==
    /\ rxs.kind = "MultiProtocolInterface"
    /\ rxs._running /\ rxs._serial
    /\ rxs.in_waiting # <<>>
    /\ RStep(_read_loop_body(rxs))

StreamInit ==
    /\ \/ rxs \in {Receiving("CANInterface", "CSV", wire) : wire \in StreamsOf(CsvLines)}
       \/ rxs \in {Receiving("MultiProtocolInterface", "SLCAN", wire) :
                       wire \in StreamsOf(SlcanStreamLines)}
    /\ tab = KeyToolsTab__init__
    /\ can = [running |-> FALSE, simulate |-> FALSE, serial_open |-> FALSE]
    /\ out = [log |-> <<>>, tx |-> <<>>, src |-> "init"]
    /\ hist = [req |-> <<>>, bad_keys |-> 0, scn |-> "idle", seed_level |-> 0]
    /\ ifc = IF rxs.kind = "CANInterface" THEN CANInterface__init__(FALSE, 3)
             ELSE MultiProtocolInterface__init__
    /\ thr = NoLoopThreads
    /\ obs = NothingObserved
    /\ cdc = NoCall
    /\ did = NotImported
    /\ cnt = NoCounter

StreamNext ==
    \/ StreamArrive
    \/ StreamReadLine
    \/ StreamGiveUp
    \/ StreamRead

StreamSpec == StreamInit /\ [][StreamNext]_vars

----------------------------------------------------------------------------
(* UDS, DID and DTC decoders *)

\* the character U+2192 of the descriptions
Arrow == "\\u2192"

\* the character U+0060
Backtick == "\\x60"

\* chr(b) for b in 32..126
PrintableChars ==
    <<" ", "!", "\"", "#", "$", "%", "&", "'", "(", ")", "*", "+", ",", "-", ".", "/",
      "0", "1", "2", "3", "4", "5", "6", "7", "8", "9", ":", ";", "<", "=", ">", "?",
      "@", "A", "B", "C", "D", "E", "F", "G", "H", "I", "J", "K", "L", "M", "N", "O",
      "P", "Q", "R", "S", "T", "U", "V", "W", "X", "Y", "Z", "[", "\\", "]", "^", "_",
      Backtick, "a", "b", "c", "d", "e", "f", "g", "h", "i", "j", "k", "l", "m", "n", "o",
      "p", "q", "r", "s", "t", "u", "v", "w", "x", "y", "z", "{", "|", "}", "~">>

\* decode_ascii
decode_ascii(data) ==
    [i \in 1..Len(data) |-> IF 32 <= data[i] /\ data[i] <= 126
                            THEN PrintableChars[data[i] - 31] ELSE "."]

RECURSIVE DivideByTen(_, _)
\* quotient (as bytes, most significant first) and remainder of the big-endian
\* number rem * 256^len(bytes) + bytes by ten
DivideByTen(bytes, rem) ==
    IF bytes = <<>> THEN [q |-> <<>>, r |-> rem]
    ELSE LET cur == rem * 256 + Head(bytes)
             rest == DivideByTen(Tail(bytes), cur % 10)
         IN [q |-> <<cur \div 10>> \o rest.q, r |-> rest.r]

RECURSIVE str_value(_)
\* str(value) of the value accumulated by (value << 8) | b over the bytes; the
\* value has up to 64 bits and is kept as its bytes
str_value(bytes) ==
    IF \A i \in 1..Len(bytes) : bytes[i] = 0 THEN <<"0">>
    ELSE LET d == DivideByTen(bytes, 0)
         IN (IF \A i \in 1..Len(d.q) : d.q[i] = 0 THEN <<>> ELSE str_value(d.q))
            \o <<DigitChars[d.r + 1]>>

\* faulty variant: the bytes are taken least significant first
decode_uint_LittleEndian(data, byte_count) ==
    IF Len(data) < byte_count
    THEN <<"I", "n", "v", "a", "l", "i", "d", " ", "(">> \o FormatD(Len(data))
         \o <<" ", "b", "y", "t", "e", "s", ")">>
    ELSE str_value([i \in 1..byte_count |-> data[byte_count + 1 - i]])

\* decode_uint
decode_uint(data, byte_count) ==
    IF Len(data) < byte_count
    THEN <<"I", "n", "v", "a", "l", "i", "d", " ", "(">> \o FormatD(Len(data))
         \o <<" ", "b", "y", "t", "e", "s", ")">>
    ELSE str_value(Slice(data, 0, byte_count))

\* the fallback decoder: two hex digits per byte, joined by spaces
raw_hex(data) == FormatBytes(data, <<" ">>)

\* an entry of a DID table: the name and the decoder; byte_count is read by
\* the "uint" decoder only
DidInfo(name, decoder, byte_count) ==
    [name |-> name, decoder |-> decoder, byte_count |-> byte_count]

\* did_info[1](payload)
Decoded(info, payload) ==
    IF info.decoder = "ascii" THEN decode_ascii(payload)
    ELSE IF info.decoder = "uint" THEN decode_uint(payload, info.byte_count)
    ELSE raw_hex(payload)

\* default_dids of load_did_config
default_dids ==
    (\hF190 :> DidInfo(<<"V", "I", "N">>, "ascii", 0))
    @@ (\hF124 :> DidInfo(<<"E", "C", "U", " ", "S", "e", "r", "i", "a", "l", " ", "N", "u",
                            "m", "b", "e", "r">>, "ascii", 0))
    @@ (\hF1A0 :> DidInfo(<<"O", "d", "o", "m", "e", "t", "e", "r">>, "uint", 4))

\* DID_LOOKUP.get(did, default): the default is named 0x and four hex digits
\* of the DID and decodes as raw hex
DID_LOOKUP_get(lookup, did_value) ==
    IF did_value \in DOMAIN lookup THEN lookup[did_value]
    ELSE DidInfo(<<"0", "x">> \o FormatX(did_value, 4), "hex", 0)

\* _decode_did
_decode_did(lookup, data, start_idx, include_payload) ==
    IF Len(data) < start_idx + 2 THEN <<"I", "n", "v", "a", "l", "i", "d", " ", "D", "I", "D">>
    ELSE LET did_value == BitOr(Shl(data[start_idx + 1], 8), data[start_idx + 2])
             did_info == DID_LOOKUP_get(lookup, did_value)
         IN IF include_payload /\ Len(data) > start_idx + 2
            THEN <<"D", "I", "D", ":", " ">> \o did_info.name
                 \o <<",", " ", "D", "a", "t", "a", ":", " ">>
                 \o Decoded(did_info, SliceFrom(data, start_idx + 2))
            ELSE <<"D", "I", "D", ":", " ">> \o did_info.name

\* UDS_SERVICES: the names
UDS_SERVICES ==
    (\h10 :> <<"D", "i", "a", "g", "n", "o", "s", "t", "i", "c", "S", "e", "s", "s", "i", "o",
               "n", "C", "o", "n", "t", "r", "o", "l">>)
    @@ (\h11 :> <<"E", "C", "U", "R", "e", "s", "e", "t">>)
    @@ (\h14 :> <<"C", "l", "e", "a", "r", "D", "i", "a", "g", "n", "o", "s", "t", "i", "c",
                  "I", "n", "f", "o", "r", "m", "a", "t", "i", "o", "n">>)
    @@ (\h19 :> <<"R", "e", "a", "d", "D", "T", "C", "I", "n", "f", "o", "r", "m", "a", "t",
                  "i", "o", "n">>)
    @@ (\h22 :> <<"R", "e", "a", "d", "D", "a", "t", "a", "B", "y", "I", "d", "e", "n", "t",
                  "i", "f", "i", "e", "r">>)
    @@ (\h27 :> <<"S", "e", "c", "u", "r", "i", "t", "y", "A", "c", "c", "e", "s", "s">>)
    @@ (\h2E :> <<"W", "r", "i", "t", "e", "D", "a", "t", "a", "B", "y", "I", "d", "e", "n",
                  "t", "i", "f", "i", "e", "r">>)
    @@ (\h31 :> <<"R", "o", "u", "t", "i", "n", "e", "C", "o", "n", "t", "r", "o", "l">>)
    @@ (\h36 :> <<"T", "r", "a", "n", "s", "f", "e", "r", "D", "a", "t", "a">>)
    @@ (\h3E :> <<"T", "e", "s", "t", "e", "r", "P", "r", "e", "s", "e", "n", "t">>)

\* UDS_SERVICES: the detail functions
UDS_SERVICES_details(lookup, sid, data) ==
    IF sid \in {\h10, \h11, \h19, \h27}
    THEN (IF Len(data) > 1
          THEN (CASE sid = \h10 -> <<"S", "e", "s", "s", "i", "o", "n", ":", " ">>
                  [] sid = \h11 -> <<"R", "e", "s", "e", "t", " ", "T", "y", "p", "e", ":", " ">>
                  [] sid = \h19 -> <<"S", "u", "b", "-", "F", "u", "n", "c", "t", "i", "o", "n",
                                     ":", " ">>
                  [] sid = \h27 -> <<"L", "e", "v", "e", "l", ":", " ">>)
               \o FormatX(data[2], 2)
          ELSE <<>>)
    ELSE IF sid = \h14
    THEN (IF Len(data) >= 4
          THEN <<"D", "T", "C", ":", " ">>
               \o FormatX(BitOr(BitOr(Shl(data[2], 16), Shl(data[3], 8)), data[4]), 6)
          ELSE <<>>)
    ELSE IF sid = \h22
    THEN (IF Len(data) >= 3 THEN _decode_did(lookup, data, 1, FALSE) ELSE <<>>)
    ELSE IF sid = \h2E
    THEN (IF Len(data) >= 4 THEN _decode_did(lookup, data, 1, TRUE) ELSE <<>>)
    ELSE IF sid = \h31
    THEN (IF Len(data) >= 4
          THEN <<"T", "y", "p", "e", ":", " ">> \o FormatX(data[2], 2)
               \o <<",", " ", "R", "o", "u", "t", "i", "n", "e", ":", " ">>
               \o FormatX(BitOr(Shl(data[3], 8), data[4]), 4)
          ELSE <<>>)
    ELSE IF sid = \h36
    THEN (IF Len(data) >= 3
          THEN <<"B", "l", "o", "c", "k", ":", " ">> \o FormatX(data[2], 2)
               \o <<",", " ", "D", "a", "t", "a", ":", " ">> \o raw_hex(SliceFrom(data, 2))
          ELSE <<>>)
    ELSE <<"T", "e", "s", "t", "e", "r", "P", "r", "e", "s", "e", "n", "t">>

\* nrc_desc of decode_uds
nrc_desc(nrc) ==
    CASE nrc = \h10 -> <<"G", "e", "n", "e", "r", "a", "l", " ", "R", "e", "j", "e", "c", "t">>
      [] nrc = \h11 -> <<"S", "e", "r", "v", "i", "c", "e", " ", "N", "o", "t", " ", "S", "u",
                         "p", "p", "o", "r", "t", "e", "d">>
      [] nrc = \h12 -> <<"S", "u", "b", "-", "F", "u", "n", "c", "t", "i", "o", "n", " ", "N",
                         "o", "t", " ", "S", "u", "p", "p", "o", "r", "t", "e", "d">>
      [] nrc = \h22 -> <<"C", "o", "n", "d", "i", "t", "i", "o", "n", "s", " ", "N", "o", "t",
                         " ", "C", "o", "r", "r", "e", "c", "t">>
      [] nrc = \h31 -> <<"R", "e", "q", "u", "e", "s", "t", " ", "O", "u", "t", " ", "O", "f",
                         " ", "R", "a", "n", "g", "e">>
      [] OTHER -> <<"U", "n", "k", "n", "o", "w", "n", " ", "N", "R", "C", ":", " ">>
                  \o FormatX(nrc, 2)

\* faulty variant: the bound is taken exclusive, and at 0x50
decode_uds_is_response_Above50(sid) == sid > \h50

\* decode_uds: is_response
decode_uds_is_response(sid) == sid >= \h40

\* decode_uds on frame.data, with DID_LOOKUP the table of the module
decode_uds(lookup, data) ==
    IF data = <<>> THEN None
    ELSE LET sid == data[1]
         IN IF decode_uds_is_response(sid) /\ (sid - \h40) \in DOMAIN UDS_SERVICES
            THEN LET name == UDS_SERVICES[sid - \h40]
                 IN IF sid - \h40 = \h22 /\ Len(data) >= 3
                    THEN LET did_value == BitOr(Shl(data[2], 8), data[3])
                             did_info == DID_LOOKUP_get(lookup, did_value)
                             payload == IF Len(data) > 3
                                        THEN Decoded(did_info, SliceFrom(data, 3))
                                        ELSE <<"N", "o", " ", "D", "a", "t", "a">>
                         IN Some(name
                                 \o <<" ", "R", "e", "s", "p", "o", "n", "s", "e", " ",
                                      Arrow, " ", "D", "I", "D", ":", " ">>
                                 \o did_info.name \o <<",", " ">> \o payload)
                    ELSE IF Len(data) > 1
                    THEN Some(name
                              \o <<" ", "R", "e", "s", "p", "o", "n", "s", "e", " ",
                                   Arrow, " ", "D", "a", "t", "a", ":", " ">>
                              \o raw_hex(SliceFrom(data, 1)))
                    ELSE Some(name \o <<" ", "R", "e", "s", "p", "o", "n", "s", "e">>)
            ELSE IF sid = \h7F /\ Len(data) >= 3
            THEN Some(<<"N", "e", "g", "a", "t", "i", "v", "e", " ", "R", "e", "s", "p", "o",
                        "n", "s", "e", " ", Arrow, " ", "S", "I", "D", ":", " ">>
                      \o FormatX(data[2], 2) \o <<",", " ">> \o nrc_desc(data[3]))
            ELSE IF sid \in DOMAIN UDS_SERVICES
            THEN LET details == UDS_SERVICES_details(lookup, sid, data)
                 IN Some(UDS_SERVICES[sid]
                         \o (IF details # <<>> THEN <<" ", Arrow, " ">> \o details ELSE <<>>))
            ELSE None

\* faulty variant: the low two bits of hi select the letter
_decode_dtc_TypeFromLowBits(hi, lo) ==
    LET type_map == <<"P", "C", "B", "U">>
        dtc_type == type_map[BitAnd(hi, \h03) + 1]
        num == BitOr(Shl(BitAnd(hi, \h3F), 8), lo)
    IN <<dtc_type>> \o FormatX(num, 4)

\* DiagnosticsTab._decode_dtc
_decode_dtc(hi, lo) ==
    LET type_map == <<"P", "C", "B", "U">>
        dtc_type == type_map[BitAnd(Shr(hi, 6), \h03) + 1]
        num == BitOr(Shl(BitAnd(hi, \h3F), 8), lo)
    IN <<dtc_type>> \o FormatX(num, 4)

----------------------------------------------------------------------------
(* DID configuration files *)

\* no file at the path, and a file that is no JSON document
MissingFile == [kind |-> "missing", items |-> <<>>]

InvalidJsonFile == [kind |-> "invalid JSON", items |-> <<>>]

\* a configuration that renames the VIN and adds DIDs with each kind of decoder
VehicleFile ==
    [kind |-> "object",
     items |-> <<
      [key |-> <<"F", "1", "9", "0">>,
       info |-> [name |-> <<<<"C", "h", "a", "s", "s", "i", "s">>>>, decoder |-> <<"ascii">>, byte_count |-> <<>>]],
      [key |-> <<"0", "1", "0", "1">>,
       info |-> [name |-> <<<<"S", "p", "e", "e", "d">>>>, decoder |-> <<"uint">>, byte_count |-> <<2>>]],
      [key |-> <<"F", "1", "A", "0">>,
       info |-> [name |-> <<<<"M", "i", "l", "e", "a", "g", "e">>>>, decoder |-> <<"uint">>, byte_count |-> <<>>]],
      [key |-> <<"F", "1", "8", "C">>,
       info |-> [name |-> <<<<"P", "a", "r", "t">>>>, decoder |-> <<"hex">>, byte_count |-> <<>>]]>>]

\* a key in lower case and an entry that names no decoder
LowerCaseFile ==
    [kind |-> "object",
     items |-> <<
      [key |-> <<"f", "1", "2", "4">>,
       info |-> [name |-> <<<<"S", "e", "r", "i", "a", "l">>>>, decoder |-> <<>>, byte_count |-> <<>>]]>>]

\* the second entry has no name
NamelessFile ==
    [kind |-> "object",
     items |-> <<
      [key |-> <<"F", "1", "9", "0">>,
       info |-> [name |-> <<<<"C", "h", "a", "s", "s", "i", "s">>>>, decoder |-> <<"ascii">>, byte_count |-> <<>>]],
      [key |-> <<"F", "1", "2", "4">>,
       info |-> [name |-> <<>>, decoder |-> <<"ascii">>, byte_count |-> <<>>]]>>]

\* the second key is not hex
BadKeyFile ==
    [kind |-> "object",
     items |-> <<
      [key |-> <<"F", "1", "9", "0">>,
       info |-> [name |-> <<<<"C", "h", "a", "s", "s", "i", "s">>>>, decoder |-> <<"ascii">>, byte_count |-> <<>>]],
      [key |-> <<"V", "I", "N">>,
       info |-> [name |-> <<<<"C", "h", "a", "s", "s", "i", "s">>>>, decoder |-> <<"ascii">>, byte_count |-> <<>>]]>>]

\* the files a path can lead to
DidFiles == {MissingFile, InvalidJsonFile, VehicleFile, LowerCaseFile, NamelessFile, BadKeyFile}

\* what a call of load_did_config ends with: the table returned, or the
\* exception that leaves it
Loaded(lookup) == [raised |-> "", lookup |-> lookup]

LoadRaised(exception) == [raised |-> exception, lookup |-> <<>>]

\* info.get(field, default)
InfoGet(info, field, default) == IF info[field] = <<>> THEN default ELSE info[field][1]

RECURSIVE load_did_config_items(_, _)
\* load_did_config: the loop over raw_data.items(); KeyError is caught and
\* answered with the default table, ValueError is not caught
load_did_config_items(items, did_lookup) ==
    IF items = <<>> THEN Loaded(did_lookup)
    ELSE LET did_hex == Head(items).key
             info == Head(items).info
             did_value == ParseInt(did_hex, 16)
             decoder_name == InfoGet(info, "decoder", "ascii")
             decoder == IF decoder_name \in {"ascii", "uint"} THEN decoder_name ELSE "hex"
             byte_count == IF decoder_name = "uint" THEN InfoGet(info, "byte_count", 4) ELSE 0
         IN IF ~did_value.ok THEN LoadRaised("ValueError")
            ELSE IF info.name = <<>> THEN Loaded(default_dids)
            ELSE load_did_config_items(
                     Tail(items),
                     (did_value.v :> DidInfo(info.name[1], decoder, byte_count)) @@ did_lookup)

\* load_did_config
load_did_config(file) ==
    IF file.kind \in {"missing", "invalid JSON"} THEN Loaded(default_dids)
    ELSE load_did_config_items(file.items, <<>>)

----------------------------------------------------------------------------
(* Decoders: inputs of the model *)

\* first bytes of frame.data: the request service ids, the responses to them,
\* the negative response and bytes next to them
FirstBytes ==
    DOMAIN UDS_SERVICES \cup {sid + \h40 : sid \in DOMAIN UDS_SERVICES}
    \cup {\h00, \h3F, \h40, \h7F, \h80, \hFF}

\* the bytes after the first: none, a sub-function, DIDs of the tables and an
\* unknown one, payloads shorter than, as long as and longer than a 4-byte
\* integer, text with bytes that are not printable, a negative response code
Tails ==
    {<<>>, <<\h01>>, <<\h10, \h11>>, <<\h27, \h35>>,
     <<\hF1, \h90>>, <<\hF1, \hA0>>,
     <<\hF1, \h90, \h57, \h30, \h7E, \h7F, \h1F>>,
     <<\hF1, \hA0, \h01, \h02>>, <<\hF1, \hA0, \h00, \h01, \hE2, \h40>>,
     <<\hF1, \hA0, \hFF, \hFF, \hFF, \hFF, \h01>>,
     <<\h01, \h01, \h12, \h34, \h56>>,
     <<\hF1, \h8C, \hDE, \hAD>>, <<\h12, \h34, \hAB, \hCD, \h00>>}

\* frame.data of the frames decoded
UdsFrames == {<<>>} \cup {<<sid>> \o tail : sid \in FirstBytes, tail \in Tails}

\* the status bytes _decode_dtc is called with
DtcBytes == {\h00, \h01, \h3F, \h40, \h7F, \h80, \hC0, \hFF}

\* the file at the default path when utils.uds_decoder is imported: none, or
\* a configuration; the import succeeds only when the initial
\* load_did_config() returns
StartupFiles == {file \in {MissingFile, VehicleFile} : load_did_config(file).raised = ""}

----------------------------------------------------------------------------
(* Decoders: state machine *)

\* the modules after import: DID_LOOKUP = load_did_config() in utils.uds_decoder,
\* and the name DID_LOOKUP imported from it by gui.tabs.can_monitor_tab;
\* loaded holds the table of the last configuration loaded since
Imported(file) ==
    [imported |-> TRUE,
     uds_decoder |-> load_did_config(file).lookup,
     can_monitor_tab |-> load_did_config(file).lookup,
     loaded |-> <<>>]

\* a call that has returned, or that an exception has left
Done(fn, args, result) ==
    [op |-> "return", fn |-> fn, args |-> args, line |-> <<>>, result |-> result,
     published |-> <<>>]

DStep(c2, d2) ==
    /\ cdc' = c2
    /\ did' = d2
    /\ UNCHANGED <<evars, tvars, rxs, cnt>>

\* CANMonitorTab._load_did_config with a path chosen: global DID_LOOKUP binds
\* the name of gui.tabs.can_monitor_tab; an exception of load_did_config
\* leaves the handler before the assignment
LoadDidConfig ==
    /\ did.imported
    /\ \E file \in DidFiles :
          LET result == load_did_config(file)
          IN DStep(Done("load_did_config", [file |-> file], <<result>>),
                   IF result.raised # "" THEN did
                   ELSE [did EXCEPT !.can_monitor_tab = result.lookup,
                                    !.loaded = <<result.lookup>>])

\* decode_uds(frame), as CANMonitorTab calls it for a row of the table
DecodeUds ==
    /\ did.imported
    /\ \E data \in UdsFrames :
          DStep(Done("decode_uds", [data |-> data], decode_uds(did.uds_decoder, data)), did)

\* _decode_did(data, start_idx, include_payload)
DecodeDid ==
    /\ did.imported
    /\ \E tail \in Tails, start_idx \in {0, 1}, include_payload \in BOOLEAN :
          LET data == IF start_idx = 0 THEN tail ELSE <<\h2E>> \o tail
          IN DStep(Done("_decode_did",
                        [data |-> data, start_idx |-> start_idx,
                         include_payload |-> include_payload],
                        <<_decode_did(did.uds_decoder, data, start_idx, include_payload)>>),
                   did)

\* DiagnosticsTab._decode_dtc(hi, lo)
DecodeDtc ==
    /\ did.imported
    /\ \E hi \in DtcBytes, lo \in {\h00, \h01, \h0F, \hA5, \hFF} :
          DStep(Done("_decode_dtc", [hi |-> hi, lo |-> lo], <<_decode_dtc(hi, lo)>>), did)

DecoderInit ==
    /\ did \in {Imported(file) : file \in StartupFiles}
    /\ cdc = NoCall
    /\ tab = KeyToolsTab__init__
    /\ can = [running |-> FALSE, simulate |-> TRUE, serial_open |-> FALSE]
    /\ out = [log |-> <<>>, tx |-> <<>>, src |-> "init"]
    /\ hist = [req |-> <<>>, bad_keys |-> 0, scn |-> "idle", seed_level |-> 0]
    /\ ifc = MultiProtocolInterface__init__
    /\ thr = NoLoopThreads
    /\ obs = NothingObserved
    /\ rxs = NoStream
    /\ cnt = NoCounter

DecoderNext ==
    \/ LoadDidConfig
    \/ DecodeUds
    \/ DecodeDid
    \/ DecodeDtc

DecoderSpec == DecoderInit /\ [][DecoderNext]_vars

----------------------------------------------------------------------------
(* Frame counter: state machine *)

\* the threads that publish frames: the caller and the interface's loop thread
CountingThreads == {MainThread, 1}

\* a CANInterface after __init__, as its frame counter sees it: loaded is the
\* value a thread has read in the first half of self._frame_count += 1,
\* returned the result of the last get_frame_count()
Counting(simulate) ==
    [kind |-> "CANInterface",
     simulate |-> simulate,
     _running |-> FALSE,
     _frame_count |-> 0,
     published |-> 0,
     pc |-> [t \in CountingThreads |-> IF t = MainThread THEN "idle" ELSE "none"],
     loaded |-> [t \in CountingThreads |-> 0],
     returned |-> <<>>]

KStep(k2) ==
    /\ cnt' = k2
    /\ UNCHANGED <<evars, tvars, cdc, rxs, did>>

\* self.frame_received.emit(frame); the next statement of the thread is
\* self._frame_count += 1
Publishes(k, t) == [k EXCEPT !.published = @ + 1, !.pc[t] = "load"]

\* self._frame_count += 1, second half: the sum is stored
_frame_count_stored(value) == value + 1

\* start(): the port opens, the loop thread runs
CounterStart ==
    /\ cnt.kind = "CANInterface"
    /\ cnt.pc[MainThread] = "idle"
    /\ ~cnt._running
    /\ KStep([cnt EXCEPT !._running = TRUE, !.pc[1] = "loop"])

\* _simulate_frames: one round of the generator
CountSimulateFrames ==
    /\ cnt.kind = "CANInterface"
    /\ cnt.simulate /\ cnt._running
    /\ cnt.pc[1] = "loop"
    /\ cnt.published < FrameLimit
    /\ KStep(Publishes(cnt, 1))

\* _serial_read_loop: a line the parser takes has been read
CountSerialReadLoop ==
    /\ cnt.kind = "CANInterface"
    /\ ~cnt.simulate /\ cnt._running
    /\ cnt.pc[1] = "loop"
    /\ cnt.published < FrameLimit
    /\ KStep(Publishes(cnt, 1))

\* send_frame on the caller's thread: the simulation echoes the frame; on a
\* port the frame is written, nothing is published and nothing counted
CountSendFrame ==
    /\ cnt.kind = "CANInterface"
    /\ cnt._running
    /\ cnt.pc[MainThread] = "idle"
    /\ cnt.published < FrameLimit
    /\ KStep(IF cnt.simulate THEN Publishes(cnt, MainThread)
             ELSE [cnt EXCEPT !.returned = <<>>])

\* self._frame_count += 1, first half: the attribute is read
IncrementLoads ==
    \E t \in CountingThreads :
        /\ cnt.kind = "CANInterface"
        /\ cnt.pc[t] = "load"
        /\ KStep([cnt EXCEPT !.loaded[t] = cnt._frame_count, !.pc[t] = "store"])

\* self._frame_count += 1, second half; the caller returns, the loop goes round
IncrementStores ==
    \E t \in CountingThreads :
        /\ cnt.kind = "CANInterface"
        /\ cnt.pc[t] = "store"
        /\ KStep([cnt EXCEPT !._frame_count = _frame_count_stored(cnt.loaded[t]),
                             !.loaded[t] = 0,
                             !.pc[t] = IF t = MainThread THEN "idle" ELSE "loop"])

\* get_frame_count() on the caller's thread (the status bar's timer)
GetFrameCount ==
    /\ cnt.kind = "CANInterface"
    /\ cnt.pc[MainThread] = "idle"
    /\ KStep([cnt EXCEPT !.returned = <<cnt._frame_count>>])

CounterInit ==
    /\ cnt \in {Counting(simulate) : simulate \in BOOLEAN}
    /\ tab = KeyToolsTab__init__
    /\ can = [running |-> FALSE, simulate |-> cnt.simulate, serial_open |-> FALSE]
    /\ out = [log |-> <<>>, tx |-> <<>>, src |-> "init"]
    /\ hist = [req |-> <<>>, bad_keys |-> 0, scn |-> "idle", seed_level |-> 0]
    /\ ifc = CANInterface__init__(cnt.simulate, 3)
    /\ thr = NoLoopThreads
    /\ obs = NothingObserved
    /\ cdc = NoCall
    /\ rxs = NoStream
    /\ did = NotImported

CounterNext ==
    \/ CounterStart
    \/ CountSimulateFrames
    \/ CountSerialReadLoop
    \/ CountSendFrame
    \/ IncrementLoads
    \/ IncrementStores
    \/ GetFrameCount

CounterSpec == CounterInit /\ [][CounterNext]_vars

----------------------------------------------------------------------------
(* Observations *)

Logged(message) == \E i \in 1..Len(out.log) : out.log[i] = message

Sent(data) == \E i \in 1..Len(out.tx) : out.tx[i] = data

SentKeyRequest == \E i \in 1..Len(out.tx) : IsKeyRequest(out.tx[i])

SentSeedRequest == \E i \in 1..Len(out.tx) : IsSeedRequest(out.tx[i])

----------------------------------------------------------------------------
(* Claims *)

\* C1: a send_key call made when no seed is held, or after the security state
\* has become Unlocked, puts no security-access key request on the bus.
C1_SendKeyOnlyFromSeedHeld ==
    [][(SendKey /\ (tab.current_seed = <<>> \/ tab.security_unlocked))
          => ~SentKeyRequest']_vars

\* C2: when the consecutive invalid keys (NRC 0x35) reach the attempt limit the
\* engine reports Locked Out, and from then on it sends no key request.
C2_InvalidKeysLockOut ==
    [][/\ (hist.bad_keys < AttemptLimit /\ hist'.bad_keys = AttemptLimit)
              => tab'.security_status = "Locked Out!"
       /\ hist.bad_keys = AttemptLimit => ~SentKeyRequest']_vars

\* C3: a request_seed call made while the session is not active sends no
\* security-access seed request.
C3_RequestSeedNeedsSession ==
    [][(RequestSeed /\ ~tab.session_active) => ~SentSeedRequest']_vars

\* C4: the session becomes active only while a session-control request is
\* outstanding, a seed is stored only while a seed request is outstanding, and
\* the security state becomes Unlocked only while a key request is outstanding.
C4_ResponseMatchesRequest ==
    [][/\ (~tab.session_active /\ tab'.session_active) => IsSessionRequest(hist.req)
       /\ tab'.current_seed # tab.current_seed => IsSeedRequest(hist.req)
       /\ (~tab.security_unlocked /\ tab'.security_unlocked)
              => IsKeyRequest(hist.req)]_vars

\* C5: once the response that answers the outstanding request has been handled,
\* no request is pending and the response timeout is not running; a timeout is
\* reported only for a request that is still outstanding.
C5_ResponseDestroysPending ==
    [][/\ (hist.req # <<>> /\ hist'.req = <<>>)
              => (~tab'.pending_response /\ ~tab'.response_timeout.active)
       /\ Logged("Response timeout")' => hist.req # <<>>]_vars

\* C6: a request that stays without a matching response eventually has its
\* timeout reported (unless the user supersedes it with another command).
C6_TimeoutEventuallyReported ==
    (hist.req # <<>>) ~>
        (Logged("Response timeout") \/ hist.req = <<>> \/ out.src = "user")

\* C7: one pending request, one running timeout: the flag and the timer agree,
\* a step that sends a request leaves the flag set and the timeout restarted at
\* its full interval, and a step whose send fails changes neither.
C7_OnePendingRequest ==
    [][/\ tab'.pending_response <=> tab'.response_timeout.active
       /\ out'.tx # <<>>
              => /\ tab'.pending_response
                 /\ tab'.response_timeout = TimerStart(ResponseTimeoutMs)
       /\ (Logged("Failed to send frame")' /\ out'.tx = <<>>)
              => /\ tab'.pending_response = tab.pending_response
                 /\ tab'.response_timeout = tab.response_timeout]_vars

\* a send has just failed while an earlier request is pending, its timeout
\* still running from when that request was sent
C7_Witness ==
    /\ Logged("Failed to send frame")
    /\ out.tx = <<>>
    /\ tab.pending_response
    /\ tab.response_timeout.active
    /\ tab.response_timeout.remaining < ResponseTimeoutMs

\* C8: every keep-alive tick during which the session is and stays active sends
\* exactly one tester-present request 3E 00.
C8_KeepAliveTickSends ==
    [][(TesterPresentFires /\ tab.session_active /\ tab'.session_active)
          => out'.tx = << <<TESTER_PRESENT, \h00>> >>]_vars

\* C9: handling a disconnected event (the interface stopped, or the handle closed
\* after a read error) ends the session and stops the
\* keep-alive timer and the response timeout.
C9_DisconnectEndsSession ==
    [][(Stop \/ SerialError)
          => /\ ~tab'.session_active
             /\ ~tab'.tester_present_timer.active
             /\ ~tab'.response_timeout.active]_vars

\* C10: the scenario start_session, 50 03, request_seed(01), 67 01 AA BB,
\* send_key, 67 02 holds the seed AA BB from the seed response on, enables
\* send_key only from the seed response on, and ends Unlocked.
C10_Scenario ==
    /\ hist.scn \in {"idle", "session_requested", "session_active", "seed_requested"}
           => (~tab.send_key_btn /\ tab.current_seed = <<>>)
    /\ hist.scn \in {"seed_held", "key_sent", "done"}
           => (tab.send_key_btn /\ tab.current_seed = <<\hAA, \hBB>>)
    /\ hist.scn = "done"
           => (tab.security_unlocked /\ tab.security_status = "UNLOCKED")
    /\ hist.scn \in {"session_active", "seed_requested", "seed_held", "key_sent", "done"}
           => tab.session_active

C10_Witness ==
    /\ hist.scn = "done"
    /\ tab.security_unlocked
    /\ tab.current_seed = <<\hAA, \hBB>>

\* C11: every key request sent by send_key carries the sub-function of the seed
\* request that produced the held seed plus one, and every seed request sent
\* by request_seed carries an odd sub-function.
C11_KeyLevelFollowsSeedLevel ==
    [][/\ (SendKey /\ hist.seed_level # 0)
              => \A i \in 1..Len(out'.tx) :
                     IsKeyRequest(out'.tx[i]) => out'.tx[i][2] = hist.seed_level + 1
       /\ RequestSeed
              => \A i \in 1..Len(out'.tx) :
                     out'.tx[i][1] = SECURITY_ACCESS => out'.tx[i][2] % 2 = 1]_vars

----------------------------------------------------------------------------
(* Claims about the transport threads *)

\* positions inside a call on the serial handle (open, close, write, read)
HandlePcs ==
    {"start_open", "connect_open", "connect_init", "reopen", "stop_close", "close",
     "send_write", "slcan_write", "readline", "read", "disconnect_write"}

\* a close is a call on the handle only if there is a handle to close
OnHandle(t) ==
    /\ thr[t].pc \in HandlePcs
    /\ thr[t].pc \in {"stop_close", "close"} => ifc._serial

\* positions at which a loop thread waits: for data, or for time to pass
BlockingPcs == {"readline", "sleep", "pause", "sim_wait"}

\* positions of a loop thread inside its loop
LoopPcs ==
    {"top", "readline", "close_lock", "close", "sleep", "reopen_lock", "reopen",
     "read_lock", "read", "pause", "sim_top", "sim_wait"}

\* positions of a thread inside stop() / disconnect()
StopPcs == {"stop_join", "stop_lock", "disconnect_write", "stop_close"}

AliveLoops == {t \in LoopThreads : Alive(t)}

\* thread t leaves the top of CANInterface's read loop in this step
LeavesTop(t) == IsCAN /\ At(t, "top") /\ thr'[t].pc # "top"

\* no two threads are inside calls on the handle at the same time
HandleCallsExclusive ==
    \A t, u \in Threads : (OnHandle(t) /\ OnHandle(u)) => t = u

\* C12: every call on the serial handle is made by a thread that holds the
\* lock, so no two threads are inside calls on the handle at the same time.
C12_HandleUnderLock ==
    /\ \A t \in Threads : OnHandle(t) => ifc._lock = {t}
    /\ HandleCallsExclusive

\* C13: at most one loop thread of an interface is alive at any time.
C13_OneLoopThread == Cardinality(AliveLoops) <= 1

\* C14: from the return of stop() until the next start, no serial handle is
\* open.
C14_StoppedStaysReleased == obs.stopped => ~ifc._serial

\* C15: a loop thread never waits for data or time while holding the lock,
\* and a send_frame call waiting for the lock eventually gets it and returns.
C15_SendNotStarved ==
    /\ [](\A t \in LoopThreads : thr[t].pc \in BlockingPcs => ifc._lock # {t})
    /\ At(MainThread, "send_lock") ~> At(MainThread, "idle")

\* a send_frame call waits for the lock while a loop thread holds it
C15_Witness ==
    /\ At(MainThread, "send_lock")
    /\ ifc._lock # {}
    /\ ifc._lock \subseteq LoopThreads

\* C16: a loop thread whose read of the handle failed does not read that
\* handle again while the interface reports itself connected: the handle is
\* closed first.
C16_NoLoopOnFailedHandle ==
    \A t \in LoopThreads :
        ~(/\ thr[t].err
          /\ thr[t].pc \in {"top", "readline", "read_lock", "read"}
          /\ ifc._serial
          /\ ifc._running)

\* C17: CANInterface's read loop starts a reconnect attempt only with
\* auto-reconnect enabled and fewer than the configured attempts made; with
\* auto-reconnect disabled, a loop that finds the connection lost reports
\* connection_lost and leaves the loop, the interface no longer running.
C17_ReconnectOnlyWhenEnabled ==
    [][\A t \in LoopThreads :
           /\ (LeavesTop(t) /\ thr'[t].pc = "sleep")
                  => (ifc.auto_reconnect /\ thr[t].attempt < ifc._reconnect_attempts)
           /\ thr'[t].pc \in {"reopen_lock", "reopen"}
                  => thr[t].pc \in {"sleep", "reopen_lock", "reopen"}
           /\ (LeavesTop(t) /\ ifc._running /\ ~ifc._serial /\ ~ifc.auto_reconnect)
                  => /\ "connection_lost" \in obs'.ev
                     /\ thr'[t].pc \notin LoopPcs
                     /\ ~ifc'._running]_vars

\* a loop thread has just given up with auto-reconnect disabled
C17_Witness ==
    /\ IsCAN
    /\ "connection_lost" \in obs.ev
    /\ ~ifc.auto_reconnect
    /\ ~ifc._running
    /\ ~ifc._serial
    /\ AliveLoops = {}

\* C18: a read loop that gives up with auto-reconnect enabled, after a run of
\* reconnects in which every reopen failed, has made exactly the configured
\* number of attempts; giving up emits connection_lost, leaves the interface
\* not running and without a handle, and ends the loop for good (so it emits
\* once and reconnects no more).
C18_GivesUpAfterMaxAttempts ==
    [][\A t \in LoopThreads :
           /\ (LeavesTop(t) /\ "connection_lost" \in obs'.ev
                   /\ thr[t].steady /\ ifc.auto_reconnect)
                  => thr[t].attempt = ifc._reconnect_attempts
           /\ (LeavesTop(t) /\ "connection_lost" \in obs'.ev)
                  => /\ ~ifc'._running
                     /\ ~ifc'._serial
                     /\ thr'[t].pc \in StopPcs \cup {"none"}
           /\ "connection_lost" \in obs'.ev => \E u \in LoopThreads : LeavesTop(u)
           /\ thr[t].pc \in StopPcs => thr'[t].pc \in StopPcs \cup {"none"}]_vars

\* a loop has just given up after six failed reconnect attempts
C18_Witness ==
    /\ IsCAN
    /\ "connection_lost" \in obs.ev
    /\ ifc.auto_reconnect
    /\ ifc._reconnect_attempts = 6
    /\ ~ifc._running
    /\ ~ifc._serial
    /\ AliveLoops = {}

\* the delays of reconnect attempts 0..5
BackoffDelays == <<1, 2, 4, 8, 10, 10>>

\* C19: the delay before reconnect attempt n is min(2^n, 10) seconds, that is
\* 1, 2, 4, 8, 10, 10 for n = 0..5, and never more than 10.
C19_BackoffDelay ==
    \A t \in LoopThreads :
        At(t, "sleep")
            => /\ thr[t].delay <= 10
               /\ thr[t].attempt < Len(BackoffDelays)
                      => thr[t].delay = BackoffDelays[thr[t].attempt + 1]

\* a loop thread sleeps before reconnect attempt 5
C19_Witness ==
    \E t \in LoopThreads :
        At(t, "sleep") /\ thr[t].attempt = 5 /\ thr[t].delay = 10

\* C20: when the open inside start() or connect() fails, the call returns
\* False and reports the failure, and leaves the interface not running, with
\* no loop thread and no open handle.
C20_FailedOpenLeavesNothing ==
    [][(At(MainThread, "start_open") \/ At(MainThread, "connect_open"))
           /\ thr'[MainThread].pc = "idle" /\ "SerialException" \in obs'.ev
          => /\ obs'.ev \cap {"start:False", "connect:False"} # {}
             /\ obs'.ev \cap {"connection_changed(False)", "error_occurred"} # {}
             /\ ~ifc'._running
             /\ \A t \in LoopThreads : ~Alive(t)']_vars

\* thread t returns from readline() in this step
ReturnsFromReadline(t) == At(t, "readline") /\ thr'[t].pc # "readline"

\* the step's readline() returned a line: one that gives a frame, one that
\* does not, or one that is blank
ALineIsRead == obs'.ev \cap {Readline.frame, Readline.malformed, Readline.blank} # {}

\* C37: any successful read of a line, whether or not the line decodes to a
\* frame, resets the reconnect attempt counter to 0 (so that a later failure
\* starts the backoff at 1 second with the full number of attempts).
C37_LineReadResetsAttempts ==
    [][\A t \in LoopThreads :
           (ReturnsFromReadline(t) /\ ALineIsRead) => thr'[t].attempt = 0]_vars

\* the step writes a control command to the handle
WritesCommand == ifc'.written # <<>> /\ ifc'.written # ifc.written

\* the step starts a read loop on the adapter, or emits the connected event
StartsReadLoop ==
    /\ IsMulti /\ ~ifc'.simulate
    /\ \/ \E t \in LoopThreads : ~Alive(t) /\ Alive(t)'
       \/ "connection_changed(True)" \in obs'.ev

\* the step closes the adapter's handle
ClosesHandle == IsMulti /\ ifc._serial /\ ~ifc'._serial

----------------------------------------------------------------------------
(* Claims about receiving *)

RECURSIVE CompleteLines(_, _)
\* the lines of the bytes that have their terminator, in the order received
CompleteLines(bytes, terms) ==
    IF ~HasTerminator(bytes, terms) THEN <<>>
    ELSE <<Slice(bytes, 0, FirstTerminator(bytes, terms))>>
         \o CompleteLines(SliceFrom(bytes, FirstTerminator(bytes, terms) + 1), terms)

\* the frame the codec of the interface makes of the text of a line
CodecFrames(r, text) ==
    IF Strip(text) = <<>> THEN <<>>
    ELSE IF r.kind = "CANInterface" THEN _default_frame_parser(Strip(text))
    ELSE _process_line(r.interface_type, Strip(text))

\* a line the codec has no frame for, or that holds bytes that are not text
Malformed(r, line) == ~Decodable(line) \/ CodecFrames(r, line) = <<>>

\* the step reads exactly one complete line, from the start of that line
ReadsOneLine ==
    /\ rxs.kind # "none"
    /\ rxs'.read # rxs.read
    /\ rxs.read = <<>> \/ Last(rxs.read) \in Terminators(rxs)
    /\ Last(rxs'.read) \in Terminators(rxs)
    /\ Len(CompleteLines(rxs'.read, Terminators(rxs)))
         = Len(CompleteLines(rxs.read, Terminators(rxs))) + 1

LineRead == Last(CompleteLines(rxs'.read, Terminators(rxs)))

\* C21: a malformed line read from the stream is skipped: no frame is
\* published for it, the handle stays open, the loop keeps running and no
\* failure is reported; a well-formed line read is decoded and published,
\* whatever came before it
C21_MalformedLineSkipped ==
    [][ReadsOneLine =>
          /\ Malformed(rxs, LineRead) =>
                /\ rxs'.frames = rxs.frames
                /\ rxs'._serial /\ rxs'._running /\ ~rxs'.lost
          /\ ~Malformed(rxs, LineRead) =>
                rxs'.frames = rxs.frames \o CodecFrames(rxs, LineRead)]_vars

RECURSIVE FramesOfLines(_, _)
\* the frames of the lines, line by line; bytes that are not text are dropped
\* from a line (errors='ignore') or make it yield nothing (decode())
FramesOfLines(r, lines) ==
    IF lines = <<>> THEN <<>>
    ELSE (IF r.kind = "CANInterface"
          THEN (IF Decodable(Head(lines)) THEN CodecFrames(r, Head(lines)) ELSE <<>>)
          ELSE CodecFrames(r, decode_ignore(Head(lines))))
         \o FramesOfLines(r, Tail(lines))

\* C22: the frames published are those of the complete lines read so far, in
\* the order the lines arrived, each once: a line read in two parts is put
\* together again and a part without its terminator yields nothing yet
C22_PublishedInArrivalOrder ==
    rxs.kind # "none" =>
        rxs.frames = FramesOfLines(rxs, CompleteLines(rxs.read, Terminators(rxs)))

----------------------------------------------------------------------------
(* Claims about the codecs *)

\* the value an id text stands for
IdValue(can_id) == ParseInt(can_id, 16)

\* C23: every frame published by any path (simulation generators,
\* simulate_uds_frame, send echo, the decoders of the dialects) has at most
\* max_data_bytes = 8 data bytes
C23_PublishedWithinMaxPayload ==
    cdc.op = "return" =>
        \A i \in 1..Len(cdc.published) : Len(cdc.published[i].data) <= max_data_bytes

\* the two high bits of the protected id are the parity of its low six bits
HasParity(pid) == pid \in 0..255 /\ pid = LINProtocol_calculate_pid(pid % 64)

\* the protected id field of the command send_lin_frame has written
WrittenPid(line) == ParseInt(Slice(line, 4, Find(line, ",")), 16).v

\* C24: every LIN frame built from a received line, and every LIN command
\* written to the stream, has a protected id in 0..255 whose two high bits are
\* the parity bits of its low six bits
C24_ProtectedIdParity ==
    /\ (Returned("_process_line") /\ cdc.args.interface_type = "LIN" /\ IsFrame(cdc.result))
           => HasParity(cdc.result[1].pid)
    /\ Returned("send_lin_frame") => HasParity(WrittenPid(cdc.line))

\* C25: SLCAN: parse_frame of the line build_frame produced returns a frame
\* with the same id and the same data bytes in the same order, for standard
\* ids and for extended ids, and 0 to 8 data bytes
C25_SlcanRoundTrip ==
    Returned("SLCANProtocol.build_frame") =>
        /\ IsFrame(cdc.result)
        /\ IdValue(cdc.result[1].can_id) = Valid(cdc.args.can_id)
        /\ cdc.result[1].data = cdc.args.data

C25_Witness ==
    /\ Returned("SLCANProtocol.build_frame")
    /\ cdc.args.extended
    /\ cdc.args.can_id = \h1FFFFFFF
    /\ Len(cdc.args.data) = max_data_bytes
    /\ IsFrame(cdc.result)
    /\ cdc.result[1].data = cdc.args.data

\* C26: MCP2515: parse_frame of the line build_frame produced returns a frame
\* with the same id and the same data bytes
C26_Mcp2515RoundTrip ==
    Returned("MCP2515Protocol.build_frame") =>
        /\ IsFrame(cdc.result)
        /\ IdValue(cdc.result[1].can_id) = Valid(cdc.args.can_id)
        /\ cdc.result[1].data = cdc.args.data

\* C27: CSV: the default parser, applied to the line send_frame wrote as the
\* read loop receives it, returns a frame with the same id, the same data
\* bytes and the same direction
C27_CsvRoundTrip ==
    Returned("CANInterface.send_frame") =>
        /\ IsFrame(cdc.result)
        /\ IdValue(cdc.result[1].can_id) = IdValue(cdc.args.frame.can_id)
        /\ cdc.result[1].data = cdc.args.frame.data
        /\ cdc.result[1].direction = cdc.args.frame.direction

C27_Witness ==
    /\ Returned("CANInterface.send_frame")
    /\ cdc.args.frame.direction = "TX"
    /\ IdValue(cdc.args.frame.can_id) = Valid(\h7FF)
    /\ Len(cdc.args.frame.data) = max_data_bytes
    /\ IsFrame(cdc.result)
    /\ cdc.result[1].data = cdc.args.frame.data

\* an SLCAN line as parse_frame takes it apart: where the id ends, the length
\* digit, the hex text after it
SlcanShaped(line) ==
    \/ StartsWith(line, <<"t">>) /\ Len(line) >= 5
    \/ StartsWith(line, <<"T">>) /\ Len(line) >= 10

SlcanIdEnd(line) == IF StartsWith(line, <<"t">>) THEN 4 ELSE 9

SlcanDeclared(line) == ParseInt(<<line[SlcanIdEnd(line) + 1]>>, 16)

SlcanHexText(line) == SliceFrom(line, SlcanIdEnd(line) + 1)

\* C28: SLCAN decode returns no frame for a line whose length digit is
\* malformed or outside 0..8, whose data has an odd number of hex digits, or
\* whose data is shorter than twice the declared length; a frame it returns
\* has as many data bytes as the line declares
C28_SlcanRejectsMalformed ==
    (/\ Returned("_process_line")
     /\ cdc.args.interface_type = "SLCAN"
     /\ SlcanShaped(Strip(cdc.args.line)))
    => LET line == Strip(cdc.args.line)
           declared == SlcanDeclared(line)
           text == SlcanHexText(line)
       IN /\ (\/ ~declared.ok
              \/ declared.v \notin 0..8
              \/ Len(text) % 2 = 1
              \/ Len(text) < 2 * declared.v) => cdc.result = None
          /\ IsFrame(cdc.result) => Len(cdc.result[1].data) = declared.v

\* C29: the checksum is the one's complement of the sum accumulated from the
\* protected id (enhanced) or from 0 (classic) over the data bytes, 255 taken
\* off whenever the running sum exceeds 255; accumulating protected id, data
\* and checksum by the same rule gives 0xFF; pid 0x01 with data [0x00] gives
\* 0xFE
C29_ChecksumRoundTrip ==
    Returned("LINProtocol.calculate_checksum") =>
        LET pid == cdc.args.pid
            data == cdc.args.data
            first == IF cdc.args.enhanced THEN <<pid>> ELSE <<>>
            checksum == cdc.result[1]
        IN /\ checksum \in 0..255
           /\ checksum = 255 - LINProtocol_checksum_loop(0, first \o data)
           /\ LINProtocol_checksum_loop(0, first \o data \o <<checksum>>) = \hFF
           /\ (cdc.args.enhanced /\ pid = \h01 /\ data = <<\h00>>) => checksum = \hFE

C29_Witness ==
    /\ Returned("LINProtocol.calculate_checksum")
    /\ cdc.args.enhanced
    /\ cdc.args.pid = \hFF
    /\ Len(cdc.args.data) = 8
    /\ SumOf(cdc.args.data) > 255
    /\ LINProtocol_checksum_loop(0, <<cdc.args.pid>> \o cdc.args.data \o cdc.result) = \hFF

\* bit k of v
Bit(v, k) == (v \div (2 ^ k)) % 2

\* C30: for a 6-bit id v, calculate_pid returns v | (p0 << 6) | (p1 << 7)
\* with p0 = (v ^ v>>1 ^ v>>2 ^ v>>4) & 1 and
\* p1 = NOT(v>>1 ^ v>>3 ^ v>>4 ^ v>>5) & 1: it lies in 0..255 and its low six
\* bits are v
C30_PidParity ==
    Returned("LINProtocol.calculate_pid") =>
        LET v == cdc.args.frame_id
            p0 == (Bit(v, 0) + Bit(v, 1) + Bit(v, 2) + Bit(v, 4)) % 2
            p1 == 1 - ((Bit(v, 1) + Bit(v, 3) + Bit(v, 4) + Bit(v, 5)) % 2)
        IN /\ cdc.result[1] = v + 64 * p0 + 128 * p1
           /\ cdc.result[1] \in 0..255
           /\ cdc.result[1] % 64 = v

C30_Witness ==
    /\ Returned("LINProtocol.calculate_pid")
    /\ cdc.args.frame_id = \h3F
    /\ cdc.result = <<\hBF>>

\* C31: as stated, calculate_pid(0x01) returns 0x41
C31_PidOfOneIs41 ==
    (Returned("LINProtocol.calculate_pid") /\ cdc.args.frame_id = \h01) =>
        cdc.result = <<\h41>>

\* C31, amended: calculate_pid(0x01) returns 0xC1: both parity bits of id 1
\* are set (p0 = 1, and p1 is the inverse of 0)
C31_PidOfOne ==
    (Returned("LINProtocol.calculate_pid") /\ cdc.args.frame_id = \h01) =>
        cdc.result = <<\hC1>>

C31_Witness ==
    /\ Returned("LINProtocol.calculate_pid")
    /\ cdc.args.frame_id = \h01
    /\ cdc.result # <<>>

----------------------------------------------------------------------------
(* Claims about the decoders *)

\* C32: _decode_dtc(hi, lo) is the letter P, C, B or U selected by
\* (hi >> 6) & 3 followed by exactly four upper-case hex digits whose value is
\* ((hi & 0x3F) << 8) | lo; (0x01, 0x00) gives P0100
C32_DtcDecode ==
    Returned("_decode_dtc") =>
        LET hi == cdc.args.hi
            lo == cdc.args.lo
            text == cdc.result[1]
        IN /\ Len(text) = 5
           /\ text[1] = <<"P", "C", "B", "U">>[((hi \div 64) % 4) + 1]
           /\ \A i \in 2..5 : text[i] \in Range(HexChars)
           /\ DigitsValue(Tail(text), 16) = (hi % 64) * 256 + lo
           /\ (hi = \h01 /\ lo = \h00) => text = <<"P", "0", "1", "0", "0">>

C32_Witness ==
    /\ Returned("_decode_dtc")
    /\ cdc.args.hi = \h01 /\ cdc.args.lo = \h00
    /\ cdc.result = <<<<"P", "0", "1", "0", "0">>>>

RECURSIVE TimesTenPlus(_, _)
\* the bytes (most significant first, same width) of 10 * bytes + carry
TimesTenPlus(bytes, carry) ==
    IF bytes = <<>> THEN <<>>
    ELSE LET cur == Last(bytes) * 10 + carry
         IN TimesTenPlus(SubSeq(bytes, 1, Len(bytes) - 1), cur \div 256) \o <<cur % 256>>

RECURSIVE DecimalToBytes(_, _)
\* the value of the decimal text as width bytes, most significant first
DecimalToBytes(text, width) ==
    IF text = <<>> THEN [i \in 1..width |-> 0]
    ELSE TimesTenPlus(DecimalToBytes(SubSeq(text, 1, Len(text) - 1), width),
                      IndexOf(Last(text), DigitChars) - 1)

\* the text is the decimal numeral of the big-endian value of the bytes
IsDecimalOf(text, bytes) ==
    /\ text # <<>>
    /\ \A i \in 1..Len(text) : text[i] \in DigitClass
    /\ Len(text) = 1 \/ text[1] # "0"
    /\ DecimalToBytes(text, Len(bytes)) = bytes

\* the text is the bytes as characters, '.' for those outside 32..126
IsAsciiOf(text, bytes) ==
    /\ Len(text) = Len(bytes)
    /\ \A i \in 1..Len(bytes) :
          IF bytes[i] \in 32..126 THEN text[i] = PrintableChars[bytes[i] - 31]
          ELSE text[i] = "."

\* the text is the bytes as two hex digits each, separated by spaces
IsRawHexOf(text, bytes) ==
    /\ Len(text) = (IF bytes = <<>> THEN 0 ELSE 3 * Len(bytes) - 1)
    /\ \A i \in 1..Len(bytes) :
          /\ DigitsValue(SubSeq(text, 3 * i - 2, 3 * i - 1), 16) = bytes[i]
          /\ SubSeq(text, 3 * i - 2, 3 * i - 1) = Upper(SubSeq(text, 3 * i - 2, 3 * i - 1))
          /\ i < Len(bytes) => text[3 * i] = " "

\* the text ends with the name, the separator and a rendering of the payload
Shows(text, name, sep, Rendering(_)) ==
    \E k \in 0..Len(text) :
        /\ StartsWith(SliceFrom(text, k), name \o sep)
        /\ Rendering(SliceFrom(text, k + Len(name) + Len(sep)))

\* the two payload bytes at data[at], data[at + 1] (from 0) read big-endian
DidAt(data, at) == data[at + 1] * 256 + data[at + 2]

\* the description shows the DID at data[at:at + 2] and the payload after it
\* as C33 states it: the integer is that of the first byte_count bytes, as
\* many of them as the payload has
ShowsDidAsStated(lookup, text, data, at, sep) ==
    LET payload == SliceFrom(data, at + 2)
    IN IF DidAt(data, at) \in DOMAIN lookup
       THEN LET info == lookup[DidAt(data, at)]
            IN Shows(text, info.name, sep,
                     LAMBDA shown :
                         IF info.decoder = "ascii" THEN IsAsciiOf(shown, payload)
                         ELSE IF info.decoder = "uint"
                         THEN IsDecimalOf(shown, Slice(payload, 0, info.byte_count))
                         ELSE IsRawHexOf(shown, payload))
       ELSE Shows(text, <<"0", "x">> \o FormatX(DidAt(data, at), 4), sep,
                  LAMBDA shown : IsRawHexOf(shown, payload))

\* the same, with a payload shorter than byte_count reported as invalid
ShowsDid(lookup, text, data, at, sep) ==
    LET payload == SliceFrom(data, at + 2)
        known == DidAt(data, at) \in DOMAIN lookup
    IN IF known /\ lookup[DidAt(data, at)].decoder = "uint"
             /\ Len(payload) < lookup[DidAt(data, at)].byte_count
       THEN Shows(text, lookup[DidAt(data, at)].name, sep,
                  LAMBDA shown : StartsWith(shown, <<"I", "n", "v", "a", "l", "i", "d">>))
       ELSE ShowsDidAsStated(lookup, text, data, at, sep)

\* a ReadDataByIdentifier response that carries a payload
DidResponseDecoded ==
    /\ Returned("decode_uds")
    /\ Len(cdc.args.data) > 3
    /\ cdc.args.data[1] = \h62

\* a WriteDataByIdentifier request, or a direct call, that carries a payload
DidPayloadDecoded ==
    /\ Returned("_decode_did")
    /\ cdc.args.include_payload
    /\ Len(cdc.args.data) > cdc.args.start_idx + 2

C34_DecodeUsesLoadedTable ==
    did.loaded # <<>> =>
        /\ Returned("decode_uds") =>
              cdc.result = decode_uds(did.loaded[1], cdc.args.data)
        /\ Returned("_decode_did") =>
              cdc.result = <<_decode_did(did.loaded[1], cdc.args.data, cdc.args.start_idx,
                                         cdc.args.include_payload)>>

\* the configuration is unavailable or unusable
Unusable(file) ==
    \/ file.kind \in {"missing", "invalid JSON"}
    \/ \E i \in 1..Len(file.items) :
          \/ file.items[i].info.name = <<>>
          \/ ~ParseInt(file.items[i].key, 16).ok

\* C35: load_did_config never raises, and returns the built-in table (VIN,
\* ECU Serial Number, Odometer) when the configuration is missing, no JSON,
\* has an entry without a name or a key that is not hex
C35_LoadFallsBackToDefault ==
    Returned("load_did_config") =>
        /\ cdc.result[1].raised = ""
        /\ Unusable(cdc.args.file) =>
              /\ cdc.result[1].lookup = default_dids
              /\ DOMAIN default_dids = {\hF190, \hF124, \hF1A0}

\* the request service ids decode_uds knows
KnownServices == {\h10, \h11, \h14, \h19, \h22, \h27, \h2E, \h31, \h36, \h3E}

\* C40: for data of 0 to 8 bytes decode_uds returns a description or None,
\* and None exactly when the data is empty or its first byte is no known
\* request service id, no known id plus 0x40, and not 0x7F followed by at
\* least two more bytes
C40_DecodeUdsTotal ==
    Returned("decode_uds") =>
        LET data == cdc.args.data
        IN /\ Len(data) <= max_data_bytes
           /\ cdc.result = None \/ (Len(cdc.result) = 1 /\ cdc.result[1] # <<>>)
           /\ cdc.result = None <=>
                 \/ data = <<>>
                 \/ /\ data[1] \notin KnownServices
                    /\ (data[1] - \h40) \notin KnownServices
                    /\ ~(data[1] = \h7F /\ Len(data) >= 3)

C40_Witness ==
    /\ Returned("decode_uds")
    /\ cdc.args.data = <<\h7F, \h10, \h11>>
    /\ cdc.result # None


----------------------------------------------------------------------------
(* Claims about the response timeout *)

\* C36: a response timeout only clears the pending request: the session-active
\* flag, the held seed, the unlocked state and the keep-alive timer are as
\* they were before it
C36_TimeoutOnlyClearsPending ==
    [][ResponseTimeoutFires
          => /\ ~tab'.pending_response
             /\ ~tab'.response_timeout.active
             /\ tab'.session_active = tab.session_active
             /\ tab'.current_seed = tab.current_seed
             /\ tab'.security_unlocked = tab.security_unlocked
             /\ tab'.security_status = tab.security_status
             /\ tab'.tester_present_timer = tab.tester_present_timer]_vars

\* a timeout has just been handled in an unlocked session that holds a seed
\* and whose keep-alive timer runs
C36_Witness ==
    /\ out.src = "timer"
    /\ out.log = <<"Response timeout">>
    /\ ~tab.pending_response
    /\ tab.session_active
    /\ tab.security_unlocked
    /\ tab.current_seed # <<>>
    /\ tab.tester_present_timer.active


----------------------------------------------------------------------------
(* Claims about the frame counter *)

\* no thread is between the publication of a frame and the end of its increment
Settled == \A t \in CountingThreads : cnt.pc[t] \notin {"load", "store"}

\* C38: the frame counter never decreases, get_frame_count() returns it, and
\* it equals the number of frames published whenever no increment is under
\* way, also when the caller's send_frame echo runs concurrently with the
\* loop thread: no increment is lost.
C38_CounterEqualsPublished ==
    [][/\ cnt'._frame_count >= cnt._frame_count
       /\ Settled' => cnt'._frame_count = cnt'.published
       /\ (cnt'.returned # cnt.returned /\ cnt'.returned # <<>>)
              => cnt'.returned = <<cnt._frame_count>>]_vars

====
